---- MODULE Spec2Model ----
(***************************************************************************)
(* Application Manifest assembly (app_manifest.services.manifest_builder). *)
(*                                                                         *)
(* build_manifest takes a BuildConfig and a table of mini-manifest         *)
(* components and returns (bom, warnings).  The state is the pair of       *)
(* inputs, the position of the call (start / done / raised) and the value  *)
(* returned.  uuid.uuid4() is modelled as a counter: the i-th call of      *)
(* _make_bom_ref in one build returns token i; bom-refs that arrive in     *)
(* the mini-manifests carry tokens below zero.                             *)
(*                                                                         *)
(* Package URLs (app_manifest.services.purl).  A second specification,     *)
(* PurlSpec, calls _parse_docker_ref_parts, make_docker_purl and           *)
(* make_helm_purl on a reference and a registry definition.  Python        *)
(* strings are TLA+ strings.                                               *)
(*                                                                         *)
(* Fetching (app_manifest.services.artifact_fetcher, cli fetch).  A third  *)
(* specification, FetchSpec, calls fetch_helm_component and                *)
(* fetch_components_from_config on a config whose components carry a       *)
(* reference, runs the fetch command, loads the files it wrote and hands   *)
(* them to build_manifest.  What `helm pull` does is an input.             *)
(*                                                                         *)
(* Each specification leaves the variables it does not use at their idle   *)
(* values.                                                                 *)
(***************************************************************************)
EXTENDS Integers, Sequences, FiniteSets, TLC

VARIABLES
    config,            \* BuildConfig
    mini_manifests,    \* dict[(name, mime-type)] -> CdxComponent
    version_override,  \* str | None
    name_override,     \* str | None
    pc,                \* "start" | "done" | "raised"
    bom,               \* the CycloneDxBom returned
    warnings,          \* the warning list returned
    bom_refs,          \* build_manifest's local bom_refs at the return
    sub_chart_keys,    \* build_manifest's local sub_chart_keys at the return
    reference,         \* purl.py: the reference argument
    regdef,            \* purl.py: RegistryDefinition | None
    purl_pc,           \* "idle" | "start" | "parsed" | "docker" | "helm"
    ret,               \* purl.py: what the call returned or raised
    helm,              \* what `helm pull` does for the i-th component
    fetch_pc,          \* "idle" | "start" | "helm" | "fetched" | "written" | "loaded"
    fetch_ret,         \* artifact_fetcher.py: what the call returned or raised
    tmpdirs,           \* the temporary directories that exist
    out_dir,           \* cli fetch: file name -> mini-manifest written
    exit_code          \* cli fetch: None while it has not ended

build_vars == <<config, mini_manifests, version_override, name_override, pc,
                bom, warnings, bom_refs, sub_chart_keys>>

purl_vars == <<reference, regdef, purl_pc, ret>>

fetch_vars == <<helm, fetch_pc, fetch_ret, tmpdirs, out_dir, exit_code>>

vars == <<build_vars, purl_vars, fetch_vars>>

-----------------------------------------------------------------------------
(* Python values *)

\* Optional[T]: None is the empty tuple, a present value x is <<x>>.
None == <<>>
Some(x) == <<x>>

\* Python truthiness of an Optional[str] and of an Optional[list].
TruthyStr(opt) == opt # None /\ opt[1] # ""
TruthyList(opt) == opt # None /\ opt[1] # <<>>

Range(s) == { s[i] : i \in DOMAIN s }

Max(S) == CHOOSE x \in S : \A y \in S : y <= x

\* All orders in which the elements of a finite set can be iterated.
Orders(S) == { s \in [1..Cardinality(S) -> S] : Range(s) = S }

-----------------------------------------------------------------------------
(* models/config.py *)

STANDALONE_RUNNABLE == "application/vnd.nc.standalone-runnable"
DOCKER_IMAGE == "application/vnd.docker.image"
HELM_CHART == "application/vnd.nc.helm.chart"
SMARTPLUG == "application/vnd.nc.smartplug"
Q_STANDALONE_RUNNABLE == "application/vnd.qubership.standalone-runnable"
Q_HELM_CHART == "application/vnd.qubership.helm.chart"

DependencyConfig(name, mime_type, values_path_prefix) ==
    [name |-> name, mime_type |-> mime_type,
     values_path_prefix |-> values_path_prefix]

ComponentConfig(name, mime_type, depends_on) ==
    [name |-> name, mime_type |-> mime_type, depends_on |-> depends_on]

BuildConfig(application_name, application_version, components) ==
    [application_name |-> application_name,
     application_version |-> application_version,
     components |-> components]

-----------------------------------------------------------------------------
(* models/cyclonedx.py *)

\* f"{name}:{uuid.uuid4()}", the uuid being the number of the call.
_make_bom_ref(name, uuid) == <<name, uuid>>

CdxProperty(name, value) == [name |-> name, value |-> value]

CdxComponent(bom_ref, type, mime_type, name, version, group, purl, properties, hashes, components, data) ==
    [bom_ref |-> bom_ref, type |-> type, mime_type |-> mime_type,
     name |-> name, version |-> version, group |-> group, purl |-> purl,
     properties |-> properties, hashes |-> hashes,
     components |-> components, data |-> data]

CdxDependency(ref, depends_on) == [ref |-> ref, depends_on |-> depends_on]

\* Mutant: the update is written into the object itself, which is returned.
model_copy_in_place(self, update) ==
    LET updated == [ f \in DOMAIN self |->
                       IF f \in DOMAIN update THEN update[f] ELSE self[f] ]
    IN  [copy |-> updated, self |-> updated]

\* self.model_copy(update=update): `copy` is the new object that is returned,
\* `self` is the object the method was called on, as the call leaves it.
model_copy(self, update) ==
    [copy |-> [ f \in DOMAIN self |->
                  IF f \in DOMAIN update THEN update[f] ELSE self[f] ],
     self |-> self]

CdxMetadataComponent(bom_ref, name, version) ==
    [bom_ref |-> bom_ref, type |-> "application",
     mime_type |-> "application/vnd.nc.application",
     name |-> name, version |-> version]

CycloneDxBom(metadata, components, dependencies) ==
    [metadata |-> metadata, components |-> components,
     dependencies |-> dependencies]

-----------------------------------------------------------------------------
(* services/manifest_builder.py *)

_DOCKER_TYPES == {DOCKER_IMAGE}

_STANDALONE_TYPES == {STANDALONE_RUNNABLE, Q_STANDALONE_RUNNABLE}

_HELM_TYPES == {HELM_CHART, Q_HELM_CHART}

\* The (name, mime_type) key of a ComponentConfig or DependencyConfig.
Key(c) == <<c.name, c.mime_type>>

\* The result of a call: either a value or a raised exception.
Return(value, uuid) == [raised |-> FALSE, value |-> value, uuid |-> uuid]
Raise(uuid) == [raised |-> TRUE, value |-> None, uuid |-> uuid]

\* Mutant: only edges of the nc variant of the chart type are recognised.
_find_sub_charts_nc_only(cfg) ==
    UNION { { Key(dep) : dep \in { d \in Range(comp.depends_on) :
                                     d.mime_type = HELM_CHART } } :
            comp \in { c \in Range(cfg.components) :
                         c.mime_type \in _HELM_TYPES } }

_find_sub_charts(cfg) ==
    UNION { { Key(dep) : dep \in { d \in Range(comp.depends_on) :
                                     d.mime_type \in _HELM_TYPES } } :
            comp \in { c \in Range(cfg.components) :
                         c.mime_type \in _HELM_TYPES } }

\* build_manifest, step 2: the i-th declared component gets token i; a key
\* declared twice keeps the token of its last declaration.
MakeBomRefs(cfg) ==
    [ k \in { Key(c) : c \in Range(cfg.components) } |->
        _make_bom_ref(k[1], Max({ i \in DOMAIN cfg.components :
                                    Key(cfg.components[i]) = k })) ]

\* build_manifest: config_index, the last declaration of each key.
ConfigIndex(cfg) ==
    [ k \in { Key(c) : c \in Range(cfg.components) } |->
        cfg.components[Max({ i \in DOMAIN cfg.components :
                               Key(cfg.components[i]) = k })] ]

\* Mutant: the table is searched by name only.
_find_mini_manifest_by_name(comp_config, mm) ==
    IF \E k \in DOMAIN mm : k[1] = comp_config.name
    THEN Some(mm[CHOOSE k \in DOMAIN mm : k[1] = comp_config.name])
    ELSE None

_find_mini_manifest(comp_config, mm) ==
    IF Key(comp_config) \in DOMAIN mm THEN Some(mm[Key(comp_config)]) ELSE None

\* Mutant: the nested components of the descriptor are not copied.
_build_docker_component_without_nested(source, bom_ref) ==
    model_copy(source, [bom_ref |-> bom_ref, components |-> None]).copy

_build_docker_component(source, bom_ref) ==
    model_copy(source, [bom_ref |-> bom_ref]).copy

\* Mutant: properties and components are left unset.
_build_standalone_component_without_lists(comp_config, bom_ref, app_version) ==
    CdxComponent(bom_ref, "application", comp_config.mime_type,
                 comp_config.name, Some(app_version), None, None,
                 None, None, None, None)

_build_standalone_component(comp_config, bom_ref, app_version) ==
    CdxComponent(bom_ref, "application", comp_config.mime_type,
                 comp_config.name, Some(app_version), None, None,
                 Some(<<>>), None, Some(<<>>), None)

\* Mutant: the loop stops after the first edge that gets a mapping.
_build_artifact_mappings_first_only(comp_config, refs) ==
    LET deps == comp_config.depends_on
        hit == { j \in DOMAIN deps :
                   /\ deps[j].mime_type \notin _HELM_TYPES
                   /\ deps[j].values_path_prefix # None
                   /\ Key(deps[j]) \in DOMAIN refs }
        first == { j \in hit : \A k \in hit : j <= k }
    IN  [ r \in { refs[Key(deps[j])] : j \in first } |->
            [valuesPathPrefix |->
                deps[Max(first)].values_path_prefix[1]] ]

\* dict[bom-ref] -> {"valuesPathPrefix": prefix}; a later edge to the same
\* bom-ref overwrites an earlier one.
_build_artifact_mappings(comp_config, refs) ==
    LET deps == comp_config.depends_on
        hit == { j \in DOMAIN deps :
                   /\ deps[j].mime_type \notin _HELM_TYPES
                   /\ deps[j].values_path_prefix # None
                   /\ Key(deps[j]) \in DOMAIN refs }
    IN  [ r \in { refs[Key(deps[j])] : j \in hit } |->
            [valuesPathPrefix |->
                deps[Max({ j \in hit : refs[Key(deps[j])] = r })]
                    .values_path_prefix[1]] ]

\* Mutant: the artifactMappings property is appended even when it is empty.
HelmProperties_always_mapped(comp_config, refs) ==
    <<CdxProperty("isLibrary", FALSE),
      CdxProperty("qubership:helm.values.artifactMappings",
                  _build_artifact_mappings(comp_config, refs))>>

HelmProperties(comp_config, refs) ==
    LET artifact_mappings == _build_artifact_mappings(comp_config, refs)
    IN  <<CdxProperty("isLibrary", FALSE)>> \o
        ( IF DOMAIN artifact_mappings # {}
          THEN <<CdxProperty("qubership:helm.values.artifactMappings",
                             artifact_mappings)>>
          ELSE <<>> )

\* bom_refs[key] raises KeyError before config_index is consulted.
_build_sub_chart(key, refs, config_index, uuid) ==
    IF key \notin DOMAIN refs THEN Raise(uuid)
    ELSE IF key \notin DOMAIN config_index THEN Return(None, uuid)
    ELSE Return(Some(CdxComponent(refs[key], "application", key[2], key[1],
                                  None, None, None,
                                  Some(HelmProperties(config_index[key], refs)),
                                  None, Some(<<>>), None)),
                uuid)

\* The loop over comp_config.depends_on in _build_helm_component.
RECURSIVE NestSubCharts(_, _, _, _, _)
NestSubCharts(deps, j, ctx, nested, uuid) ==
    IF j > Len(deps) THEN Return(nested, uuid)
    ELSE IF Key(deps[j]) \notin ctx.sub_chart_keys
         THEN NestSubCharts(deps, j + 1, ctx, nested, uuid)
         ELSE LET Nest(r) ==
                      IF r.raised THEN Raise(uuid)
                      ELSE NestSubCharts(deps, j + 1, ctx,
                                         IF r.value # None
                                         THEN Append(nested, r.value[1])
                                         ELSE nested,
                                         uuid)
              IN  Nest(_build_sub_chart(Key(deps[j]), ctx.bom_refs,
                                        ctx.config_index, uuid))

\* Mutant: the sub-charts are put before the copied components.
_build_helm_component_sub_charts_first(comp_config, source, bom_ref, ctx, uuid) ==
    LET src == IF TruthyList(source.components) THEN source.components[1] ELSE <<>>
        copied == [ k \in 1..Len(src) |->
                      model_copy(src[k],
                                 [bom_ref |->
                                    _make_bom_ref(src[k].name, uuid + k)]).copy ]
        version == IF TruthyStr(source.version) THEN source.version[1]
                   ELSE ctx.app_version
        Assemble(r) ==
            IF r.raised THEN Raise(r.uuid)
            ELSE Return(Some(model_copy(source,
                               [bom_ref |-> bom_ref,
                                version |-> Some(version),
                                properties |->
                                    Some(HelmProperties(comp_config,
                                                        ctx.bom_refs)),
                                components |-> Some(r.value \o copied)]).copy),
                        r.uuid)
    IN  Assemble(NestSubCharts(comp_config.depends_on, 1, ctx, <<>>,
                               uuid + Len(src)))

_build_helm_component(comp_config, source, bom_ref, ctx, uuid) ==
    LET src == IF TruthyList(source.components) THEN source.components[1] ELSE <<>>
        copied == [ k \in 1..Len(src) |->
                      model_copy(src[k],
                                 [bom_ref |->
                                    _make_bom_ref(src[k].name, uuid + k)]).copy ]
        version == IF TruthyStr(source.version) THEN source.version[1]
                   ELSE ctx.app_version
        Assemble(r) ==
            IF r.raised THEN Raise(r.uuid)
            ELSE Return(Some(model_copy(source,
                               [bom_ref |-> bom_ref,
                                version |-> Some(version),
                                properties |->
                                    Some(HelmProperties(comp_config,
                                                        ctx.bom_refs)),
                                components |-> Some(r.value)]).copy),
                        r.uuid)
    IN  Assemble(NestSubCharts(comp_config.depends_on, 1, ctx, copied,
                               uuid + Len(src)))

\* value is <<component | None, warning | None>>.  The warning f-string is
\* kept as the tuple of its literal and interpolated parts.
_build_component(comp_config, ctx, uuid) ==
    LET bom_ref == ctx.bom_refs[Key(comp_config)]
        source == _find_mini_manifest(comp_config, ctx.mini_manifests)
        Helm(r) == IF r.raised THEN Raise(r.uuid)
                   ELSE Return(<<r.value, None>>, r.uuid)
    IN  IF comp_config.mime_type \in _STANDALONE_TYPES
        THEN Return(<<Some(_build_standalone_component(
                               comp_config, bom_ref, ctx.app_version)),
                      None>>, uuid)
        ELSE IF source = None
        THEN Return(<<None,
                      Some(<<"WARNING: component '", comp_config.name, "' (",
                             comp_config.mime_type, ") ",
                             "not found in mini-manifests", " - skipped">>)>>,
                    uuid)
        ELSE IF comp_config.mime_type \in _HELM_TYPES
        THEN Helm(_build_helm_component(comp_config, source[1], bom_ref,
                                        ctx, uuid))
        ELSE IF comp_config.mime_type \in _DOCKER_TYPES
        THEN Return(<<Some(_build_docker_component(source[1], bom_ref)),
                      None>>, uuid)
        ELSE Return(<<Some(model_copy(source[1],
                                      [bom_ref |-> bom_ref]).copy), None>>,
                    uuid)

\* The descriptor object `source` as the calls of model_copy made by
\* _build_component on it and on its nested components leave it.  built is
\* <<the component returned>>, or None when _build_helm_component raised
\* before its last model_copy.
SourceAfter(comp_config, source, uuid, built) ==
    IF comp_config.mime_type \notin _HELM_TYPES
    THEN model_copy(source, [bom_ref |-> built[1].bom_ref]).self
    ELSE LET src == IF TruthyList(source.components)
                    THEN source.components[1] ELSE <<>>
             nested_after ==
                 [ k \in 1..Len(src) |->
                     model_copy(src[k],
                                [bom_ref |->
                                   _make_bom_ref(src[k].name, uuid + k)]).self ]
             source_after ==
                 IF TruthyList(source.components)
                 THEN [source EXCEPT !.components = Some(nested_after)]
                 ELSE source
         IN  IF built = None THEN source_after
             ELSE model_copy(source_after,
                             [bom_ref |-> built[1].bom_ref,
                              version |-> built[1].version,
                              properties |-> built[1].properties,
                              components |-> built[1].components]).self

\* The descriptor table after _build_component(comp_config, ...) ran.
TableAfter(table, comp_config, uuid, built) ==
    IF \/ comp_config.mime_type \in _STANDALONE_TYPES
       \/ Key(comp_config) \notin DOMAIN table
    THEN table
    ELSE [table EXCEPT ![Key(comp_config)] =
            SourceAfter(comp_config, table[Key(comp_config)], uuid, built)]

\* build_manifest, step 3: the loop over config.components.
\* acc = [raised, components, warnings, uuid, mini_manifests].
RECURSIVE BuildComponents(_, _, _)
BuildComponents(ctx, i, acc) ==
    IF i > Len(ctx.config.components) \/ acc.raised THEN acc
    ELSE LET comp_config == ctx.config.components[i]
         IN  IF Key(comp_config) \in ctx.sub_chart_keys
             THEN BuildComponents(ctx, i + 1, acc)
             ELSE LET Collect(r) ==
                          IF r.raised
                          THEN [acc EXCEPT
                                  !.raised = TRUE,
                                  !.mini_manifests =
                                      TableAfter(acc.mini_manifests,
                                                 comp_config, acc.uuid, None)]
                          ELSE BuildComponents(ctx, i + 1,
                                 [raised |-> FALSE,
                                  components |->
                                      IF r.value[1] # None
                                      THEN Append(acc.components,
                                                  r.value[1][1])
                                      ELSE acc.components,
                                  warnings |->
                                      IF r.value[2] # None
                                      THEN Append(acc.warnings, r.value[2][1])
                                      ELSE acc.warnings,
                                  uuid |-> r.uuid,
                                  mini_manifests |->
                                      TableAfter(acc.mini_manifests,
                                                 comp_config, acc.uuid,
                                                 r.value[1])])
                  IN  Collect(_build_component(comp_config, ctx, acc.uuid))

\* The dep_refs list of one component: its resolved dependency edges.
DepRefs(comp, refs) ==
    LET known == SelectSeq(comp.depends_on,
                           LAMBDA dep : Key(dep) \in DOMAIN refs)
    IN  [ j \in 1..Len(known) |-> refs[Key(known[j])] ]

\* One entry per component that has resolved edges, none otherwise.
RECURSIVE DepEntries(_, _)
DepEntries(comps, refs) ==
    IF comps = <<>> THEN <<>>
    ELSE LET dep_refs == DepRefs(Head(comps), refs)
         IN  ( IF dep_refs # <<>>
               THEN <<CdxDependency(refs[Key(Head(comps))], dep_refs)>>
               ELSE <<>> ) \o DepEntries(Tail(comps), refs)

\* Mutant: the application depends on every declared component.
TopLevelRefs_unfiltered(cfg, refs, sub_keys) ==
    [ i \in 1..Len(cfg.components) |-> refs[Key(cfg.components[i])] ]

\* The top_level_refs list of _build_dependencies.
TopLevelRefs(cfg, refs, sub_keys) ==
    LET top == SelectSeq(cfg.components, LAMBDA c : Key(c) \notin sub_keys)
    IN  [ i \in 1..Len(top) |-> refs[Key(top[i])] ]

\* sub_order is the order in which the set sub_chart_keys is iterated.
_build_dependencies(cfg, refs, app_bom_ref, sub_keys, sub_order) ==
    LET top == SelectSeq(cfg.components, LAMBDA c : Key(c) \notin sub_keys)
        top_level_refs == TopLevelRefs(cfg, refs, sub_keys)
        declared == SelectSeq(sub_order, LAMBDA k : k \in DOMAIN refs)
        \* next(c for c in config.components if key matches): the first one
        subs == [ i \in 1..Len(declared) |->
                    cfg.components[CHOOSE n \in DOMAIN cfg.components :
                        /\ Key(cfg.components[n]) = declared[i]
                        /\ \A m \in 1..(n - 1) :
                               Key(cfg.components[m]) # declared[i]] ]
    IN  <<CdxDependency(app_bom_ref, top_level_refs)>>
        \o DepEntries(top, refs)
        \o DepEntries(subs, refs)

\* The whole call, for one iteration order of sub_chart_keys.
BuildResult(cfg, mm, v_override, n_override, sub_order) ==
    LET app_name == IF TruthyStr(n_override) THEN n_override[1]
                    ELSE cfg.application_name
        app_version == IF TruthyStr(v_override) THEN v_override[1]
                       ELSE cfg.application_version
        sub_keys == _find_sub_charts(cfg)
        refs == MakeBomRefs(cfg)
        app_bom_ref == _make_bom_ref(app_name, Len(cfg.components) + 1)
        ctx == [config |-> cfg, mini_manifests |-> mm, bom_refs |-> refs,
                app_version |-> app_version,
                config_index |-> ConfigIndex(cfg),
                sub_chart_keys |-> sub_keys]
        Result(built) ==
            [raised |-> built.raised,
             bom |-> CycloneDxBom(
                        [component |-> CdxMetadataComponent(
                                           app_bom_ref, app_name,
                                           app_version)],
                        built.components,
                        _build_dependencies(cfg, refs, app_bom_ref, sub_keys,
                                            sub_order)),
             warnings |-> built.warnings,
             bom_refs |-> refs,
             sub_chart_keys |-> sub_keys,
             mini_manifests |-> built.mini_manifests]
    IN  Result(BuildComponents(ctx, 1,
                   [raised |-> FALSE, components |-> <<>>,
                    warnings |-> <<>>,
                    uuid |-> Len(cfg.components) + 1,
                    mini_manifests |-> mm]))

NoBom == CycloneDxBom([component |-> CdxMetadataComponent(<<"", 0>>, "", "")],
                      <<>>, <<>>)

build_manifest ==
    /\ pc = "start"
    /\ \E sub_order \in Orders(_find_sub_charts(config)) :
         \E r \in {BuildResult(config, mini_manifests, version_override,
                               name_override, sub_order)} :
             /\ IF r.raised
                THEN /\ pc' = "raised"
                     /\ bom' = NoBom
                     /\ warnings' = <<>>
                     /\ bom_refs' = r.bom_refs
                     /\ sub_chart_keys' = r.sub_chart_keys
                ELSE /\ pc' = "done"
                     /\ bom' = r.bom
                     /\ warnings' = r.warnings
                     /\ bom_refs' = r.bom_refs
                     /\ sub_chart_keys' = r.sub_chart_keys
             /\ mini_manifests' = r.mini_manifests
    /\ UNCHANGED <<config, version_override, name_override>>
    /\ UNCHANGED purl_vars
    /\ UNCHANGED fetch_vars

-----------------------------------------------------------------------------
(* Python str *)

CharAt(s, i) == SubSeq(s, i, i)

\* c in s, for a one-character c.
Contains(s, c) == \E i \in 1..Len(s) : CharAt(s, i) = c

\* s.startswith(prefix) and s[len(prefix):].
StartsWith(s, prefix) ==
    Len(s) >= Len(prefix) /\ SubSeq(s, 1, Len(prefix)) = prefix

RemovePrefix(s, prefix) == SubSeq(s, Len(prefix) + 1, Len(s))

Find(s, c) ==
    CHOOSE i \in 1..Len(s) :
        CharAt(s, i) = c /\ \A j \in 1..(i - 1) : CharAt(s, j) # c

RFind(s, c) ==
    CHOOSE i \in 1..Len(s) :
        CharAt(s, i) = c /\ \A j \in (i + 1)..Len(s) : CharAt(s, j) # c

\* s.split(sep), for a one-character sep.
RECURSIVE Split(_, _)
Split(s, sep) ==
    IF ~Contains(s, sep) THEN <<s>>
    ELSE <<SubSeq(s, 1, Find(s, sep) - 1)>>
         \o Split(SubSeq(s, Find(s, sep) + 1, Len(s)), sep)

\* s.rsplit(sep, 1) of an s that contains sep.
RSplit1(s, sep) ==
    <<SubSeq(s, 1, RFind(s, sep) - 1), SubSeq(s, RFind(s, sep) + 1, Len(s))>>

\* sep.join(parts).
RECURSIVE Join(_, _)
Join(parts, sep) ==
    IF parts = <<>> THEN ""
    ELSE IF Len(parts) = 1 THEN parts[1]
    ELSE parts[1] \o sep \o Join(Tail(parts), sep)

\* s.rstrip(c), for a one-character c.
RECURSIVE RStrip(_, _)
RStrip(s, c) ==
    IF Len(s) > 0 /\ CharAt(s, Len(s)) = c
    THEN RStrip(SubSeq(s, 1, Len(s) - 1), c)
    ELSE s

-----------------------------------------------------------------------------
(* models/regdef.py *)

DockerConfig(group_uri, group_name, snapshot_uri, staging_uri, release_uri) ==
    [group_uri |-> group_uri, group_name |-> group_name,
     snapshot_uri |-> snapshot_uri, staging_uri |-> staging_uri,
     release_uri |-> release_uri]

HelmAppConfig(repository_domain_name) ==
    [repository_domain_name |-> repository_domain_name]

RegistryDefinition(name, docker_config, helm_app_config) ==
    [name |-> name, docker_config |-> docker_config,
     helm_app_config |-> helm_app_config]

-----------------------------------------------------------------------------
(* services/purl.py *)

\* Mutant: the trailing slashes are kept.
_hosts_match_keep_slashes(host, uri) ==
    LET prefixes == <<"oci://", "https://", "http://", "docker://">>
        hits == { k \in DOMAIN prefixes : StartsWith(uri, prefixes[k]) }
        clean_uri == IF hits = {} THEN uri
                     ELSE RemovePrefix(uri,
                            prefixes[CHOOSE k \in hits :
                                         \A m \in hits : k <= m])
    IN  host = clean_uri

\* The first prefix of the tuple that uri starts with is removed, then the
\* trailing slashes of both sides.
_hosts_match(host, uri) ==
    LET prefixes == <<"oci://", "https://", "http://", "docker://">>
        hits == { k \in DOMAIN prefixes : StartsWith(uri, prefixes[k]) }
        clean_uri == IF hits = {} THEN uri
                     ELSE RemovePrefix(uri,
                            prefixes[CHOOSE k \in hits :
                                         \A m \in hits : k <= m])
    IN  RStrip(host, "/") = RStrip(clean_uri, "/")

\* Mutant: any namespace that starts with the group name matches.
_namespace_matches_plain_prefix(namespace, group_name) ==
    StartsWith(namespace, group_name)

_namespace_matches(namespace, group_name) ==
    namespace = group_name \/ StartsWith(namespace, group_name \o "/")

_resolve_registry_name(registry_host, artifact_type, regdef_, namespace) ==
    IF regdef_ = None THEN registry_host
    ELSE IF /\ artifact_type = "docker"
            /\ regdef_[1].docker_config # None
            /\ LET dc == regdef_[1].docker_config[1]
                   uris == <<dc.group_uri, dc.snapshot_uri, dc.staging_uri,
                             dc.release_uri>>
               IN  \E k \in DOMAIN uris :
                      /\ TruthyStr(uris[k])
                      /\ _hosts_match(registry_host, uris[k][1])
                      /\ \/ ~TruthyStr(dc.group_name)
                         \/ _namespace_matches(namespace, dc.group_name[1])
    THEN regdef_[1].name
    ELSE IF /\ artifact_type = "helm"
            /\ regdef_[1].helm_app_config # None
            /\ TruthyStr(regdef_[1].helm_app_config[1].repository_domain_name)
            /\ _hosts_match(registry_host,
                   regdef_[1].helm_app_config[1].repository_domain_name[1])
    THEN regdef_[1].name
    ELSE registry_host

\* Mutant: a name_tag with a ":" is split at its first ":".
NameVersion_first_colon(name_tag, try_at, without_tag) ==
    IF Contains(name_tag, ":")
    THEN <<SubSeq(name_tag, 1, Find(name_tag, ":") - 1),
           SubSeq(name_tag, Find(name_tag, ":") + 1, Len(name_tag))>>
    ELSE IF try_at /\ Contains(name_tag, "@") THEN RSplit1(name_tag, "@")
    ELSE <<name_tag, without_tag>>

\* The name:tag / name@digest split at the end of both parsers; without_tag
\* is the version of a name_tag that has no ":" (and, for docker, no "@").
NameVersion(name_tag, try_at, without_tag) ==
    IF Contains(name_tag, ":") THEN RSplit1(name_tag, ":")
    ELSE IF try_at /\ Contains(name_tag, "@") THEN RSplit1(name_tag, "@")
    ELSE <<name_tag, without_tag>>

\* (registry, namespace, name, version).
_parse_docker_ref_parts(ref_) ==
    LET ref == IF StartsWith(ref_, "docker://")
               THEN RemovePrefix(ref_, "docker://") ELSE ref_
        parts == Split(ref, "/")
        head == IF Len(parts) >= 3
                THEN <<parts[1], Join(SubSeq(parts, 2, Len(parts) - 1), "/")>>
                ELSE IF Len(parts) = 2
                THEN IF Contains(parts[1], ".") \/ Contains(parts[1], ":")
                     THEN <<parts[1], "">>
                     ELSE <<"docker.io", parts[1]>>
                ELSE <<"docker.io", "library">>
    IN  head \o NameVersion(parts[Len(parts)], TRUE, "latest")

\* What a call of make_docker_purl or make_helm_purl ends in: the purl, or a
\* ValueError with its message; with the locals ref, registry, namespace,
\* name and version of the call.
Purl(value, ref, fields) ==
    [raised |-> FALSE, error |-> "", value |-> value, ref |-> ref,
     registry |-> fields[1], namespace |-> fields[2], name |-> fields[3],
     version |-> fields[4]]

ValueError(message, ref, fields) ==
    [raised |-> TRUE, error |-> message, value |-> "", ref |-> ref,
     registry |-> fields[1], namespace |-> fields[2], name |-> fields[3],
     version |-> fields[4]]

\* Mutant: the namespace segment is written even when it is empty.
FormatPurl_always_namespace(type, f, registry_name) ==
    "pkg:" \o type \o "/" \o f[2] \o "/"
    \o f[3] \o "@" \o f[4] \o "?registry_name=" \o registry_name

\* f"pkg:{type}/{namespace}/{name}@{version}?registry_name={registry_name}",
\* without the namespace segment when the namespace is empty.
FormatPurl(type, f, registry_name) ==
    "pkg:" \o type \o "/"
    \o ( IF f[2] # "" THEN f[2] \o "/" ELSE "" )
    \o f[3] \o "@" \o f[4] \o "?registry_name=" \o registry_name

MakeDockerPurlFrom(ref_, regdef_, f) ==
    IF f[3] = ""
    THEN ValueError("Invalid Docker reference: cannot parse image name from '"
                    \o ref_ \o "'", ref_, f)
    ELSE IF f[1] = ""
    THEN ValueError("Invalid Docker reference: cannot determine registry from '"
                    \o ref_ \o "'", ref_, f)
    ELSE Purl(FormatPurl("docker", f,
                         _resolve_registry_name(f[1], "docker", regdef_, f[2])),
              ref_, f)

make_docker_purl(ref_, regdef_) ==
    MakeDockerPurlFrom(ref_, regdef_, _parse_docker_ref_parts(ref_))

\* make_helm_purl after the scheme was removed: ref is the local ref.
MakeHelmPurlFrom(ref_, regdef_, ref, f) ==
    IF f[3] = ""
    THEN ValueError("Invalid Helm reference: cannot parse chart name from '"
                    \o ref_ \o "'", ref, f)
    ELSE IF f[4] = ""
    THEN ValueError("Invalid Helm reference: version is required in '"
                    \o ref_ \o "'", ref, f)
    ELSE IF f[1] = ""
    THEN ValueError("Invalid Helm reference: cannot determine registry from '"
                    \o ref_ \o "'", ref, f)
    ELSE Purl(FormatPurl("helm", f,
                         _resolve_registry_name(f[1], "helm", regdef_, "")),
              ref, f)

\* The split of the helm reference into (registry, namespace, name, version).
HelmFields(ref) ==
    LET parts == Split(ref, "/")
        head == IF Len(parts) >= 3
                THEN <<parts[1], Join(SubSeq(parts, 2, Len(parts) - 1), "/")>>
                ELSE IF Len(parts) = 2 THEN <<parts[1], "">>
                ELSE <<"", "">>
    IN  head \o NameVersion(parts[Len(parts)], FALSE, "")

\* Mutant: scheme prefixes are removed as long as there is one.
RECURSIVE HelmRef_strip_all(_)
HelmRef_strip_all(ref_) ==
    IF StartsWith(ref_, "oci://")
    THEN HelmRef_strip_all(RemovePrefix(ref_, "oci://"))
    ELSE IF StartsWith(ref_, "https://")
    THEN HelmRef_strip_all(RemovePrefix(ref_, "https://"))
    ELSE IF StartsWith(ref_, "http://")
    THEN HelmRef_strip_all(RemovePrefix(ref_, "http://"))
    ELSE ref_

\* The local ref of make_helm_purl: the if / elif chain that removes a scheme.
HelmRef(ref_) ==
    IF StartsWith(ref_, "oci://") THEN RemovePrefix(ref_, "oci://")
    ELSE IF StartsWith(ref_, "https://") THEN RemovePrefix(ref_, "https://")
    ELSE IF StartsWith(ref_, "http://") THEN RemovePrefix(ref_, "http://")
    ELSE ref_

make_helm_purl(ref_, regdef_) ==
    MakeHelmPurlFrom(ref_, regdef_, HelmRef(ref_), HelmFields(HelmRef(ref_)))

NoRet == Purl("", "", <<"", "", "", "">>)

\* The values of the purl variables while build_manifest is modelled.
PurlIdle ==
    /\ reference = ""
    /\ regdef = None
    /\ purl_pc = "idle"
    /\ ret = NoRet

-----------------------------------------------------------------------------
(* services/artifact_fetcher.py *)

\* A ComponentConfig with its reference (str | None).
ComponentConfigWithReference(name, mime_type, reference_, depends_on) ==
    [name |-> name, mime_type |-> mime_type, reference |-> reference_,
     depends_on |-> depends_on]

\* What a call can see and change outside its own objects: the temporary
\* directories that exist, the number of directories created so far and the
\* number of uuid.uuid4() calls so far.
World(dirs, created, uuid) ==
    [tmpdirs |-> dirs, created |-> created, uuid |-> uuid]

Exception(type, message) == [type |-> type, message |-> message]

NoException == Exception("", "")

\* What a call of the fetcher ends in: a value or an exception, and the world
\* as the call leaves it.
Returned(value, world) ==
    [raised |-> FALSE, exception |-> NoException, value |-> value,
     world |-> world]

Raised(exception, world) ==
    [raised |-> TRUE, exception |-> exception, value |-> None,
     world |-> world]

\* The i-th uuid of a fetch; the tokens of fetched descriptors are below zero.
FetchToken(world) == 0 - (world.uuid + 1)

NextUuid(world) == [world EXCEPT !.uuid = @ + 1]

\* What `helm pull` and the pulled archive hold for one reference: pull is
\* "missing" (no helm executable), "timeout", "failed" (returncode != 0),
\* "empty" (no .tgz in the destination) or "ok"; archive is "corrupt" (not a
\* gzipped tar), "no_chart" (no Chart.yaml), "unreadable" (Chart.yaml is not
\* YAML), "empty_yaml" (Chart.yaml is an empty document) or "chart".
Outcome(pull, archive, chart_yaml, has_schema, profiles) ==
    [pull |-> pull, archive |-> archive, chart_yaml |-> chart_yaml,
     has_schema |-> has_schema, profiles |-> profiles]

_helm_pull(outcome, world) ==
    IF outcome.pull = "missing"
    THEN Raised(Exception("RuntimeError",
                   "helm CLI not found. Install helm: https://helm.sh/docs/intro/install/"),
                world)
    ELSE IF outcome.pull = "timeout"
    THEN Raised(Exception("TimeoutExpired", "timed out after 120 seconds"),
                world)
    ELSE IF outcome.pull = "failed"
    THEN Raised(Exception("RuntimeError", "helm pull failed: not found"),
                world)
    ELSE IF outcome.pull = "empty"
    THEN Raised(Exception("RuntimeError",
                   "No .tgz file found after helm pull in "
                   \o ToString(world.created)), world)
    ELSE Returned("chart.tgz", world)

_extract_chart(outcome, world) ==
    IF outcome.archive = "corrupt"
    THEN Raised(Exception("ReadError", "not a gzip file"), world)
    ELSE Returned("extracted", world)

_find_chart_dir(outcome, world) ==
    IF outcome.archive = "no_chart"
    THEN Raised(Exception("RuntimeError",
                   "Chart.yaml not found in extracted chart at "
                   \o ToString(world.created) \o "/extracted"), world)
    ELSE Returned("extracted/chart", world)

\* yaml.safe_load returns None for an empty document.
_read_chart_yaml(outcome, world) ==
    IF outcome.archive = "unreadable"
    THEN Raised(Exception("YAMLError", "could not parse Chart.yaml"), world)
    ELSE IF outcome.archive = "empty_yaml"
    THEN Returned(None, world)
    ELSE Returned(Some(outcome.chart_yaml), world)

\* The values.schema.json component, then the resource-profile-baselines
\* component when resource-profiles/ holds at least one *.yaml file.
_extract_nested_components(outcome, world) ==
    LET schema ==
            IF outcome.has_schema
            THEN << CdxComponent(
                      _make_bom_ref("values.schema.json", FetchToken(world)),
                      "data", "application/vnd.nc.helm.values.schema",
                      "values.schema.json", None, None, None, None, None,
                      None, Some(<<"values.schema.json">>)) >>
            ELSE <<>>
        w1 == IF outcome.has_schema THEN NextUuid(world) ELSE world
        baselines ==
            IF outcome.profiles # <<>>
            THEN << CdxComponent(
                      _make_bom_ref("resource-profile-baselines",
                                    FetchToken(w1)),
                      "data", "application/vnd.nc.resource-profile-baseline",
                      "resource-profile-baselines", None, None, None, None,
                      None, None, Some(outcome.profiles)) >>
            ELSE <<>>
        w2 == IF outcome.profiles # <<>> THEN NextUuid(w1) ELSE w1
    IN  Returned(schema \o baselines, w2)

\* CdxMetadata of a mini-manifest; the timestamp and the tools are the same
\* in every mini-manifest and are left out.
MiniManifest(component, world) ==
    Returned(CycloneDxBom(
                 [component |-> CdxMetadataComponent(
                      _make_bom_ref("am-build-cli", FetchToken(world)),
                      "am-build-cli", "0.1.0")],
                 <<component>>, <<>>),
             NextUuid(world))

\* Steps 6 to 10 of fetch_helm_component, chart_yaml being what
\* yaml.safe_load returned.
HelmComponentFrom(reference_, regdef_, mime_type, chart_yaml, outcome, world) ==
    IF chart_yaml = None
    THEN Raised(Exception("AttributeError",
                   "'NoneType' object has no attribute 'get'"), world)
    ELSE
    LET cy == chart_yaml[1]
        name == IF cy.name # None THEN cy.name[1] ELSE "unknown"
        version == IF cy.version # None THEN cy.version[1] ELSE ""
        app_version == IF cy.appVersion # None THEN cy.appVersion[1]
                       ELSE version
        Build(purl, nested) ==
            IF purl.raised
            THEN Raised(Exception("ValueError", purl.error), world)
            ELSE MiniManifest(
                     CdxComponent(
                         _make_bom_ref(name, FetchToken(nested.world)),
                         "application", mime_type, name,
                         Some(IF app_version # "" THEN app_version
                              ELSE version),
                         None,
                         IF reference_ # "" THEN Some(purl.value) ELSE None,
                         None, Some(<<"SHA-256">>), Some(nested.value),
                         None),
                     NextUuid(nested.world))
    IN  Build(IF reference_ # "" THEN make_helm_purl(reference_, regdef_)
              ELSE NoRet,
              _extract_nested_components(outcome, world))

\* The body of the with statement of fetch_helm_component.
HelmComponentInDirectory(reference_, regdef_, mime_type, outcome, world) ==
    LET Read(y) ==
            IF y.raised THEN y
            ELSE HelmComponentFrom(reference_, regdef_, mime_type, y.value,
                                   outcome, y.world)
        Found(f) ==
            IF f.raised THEN f ELSE Read(_read_chart_yaml(outcome, f.world))
        Extracted(e) ==
            IF e.raised THEN e ELSE Found(_find_chart_dir(outcome, e.world))
        Pulled(p) ==
            IF p.raised THEN p ELSE Extracted(_extract_chart(outcome, p.world))
    IN  Pulled(_helm_pull(outcome, world))

\* tempfile.TemporaryDirectory().__enter__: a new directory, named by its
\* number.
EnterTemporaryDirectory(world) ==
    [world EXCEPT !.created = @ + 1,
                  !.tmpdirs = @ \cup {world.created + 1}]

\* Mutant: the directory is removed only when the body returned.
ExitTemporaryDirectory_on_return_only(tmpdir, r) ==
    IF r.raised THEN r
    ELSE [r EXCEPT !.world.tmpdirs = @ \ {tmpdir}]

\* tempfile.TemporaryDirectory().__exit__: the directory is removed, and the
\* body's value or exception goes on to the caller.
ExitTemporaryDirectory(tmpdir, r) ==
    [r EXCEPT !.world.tmpdirs = @ \ {tmpdir}]

fetch_helm_component(reference_, regdef_, mime_type, outcome, world) ==
    LET In(entered) ==
            ExitTemporaryDirectory(
                entered.created,
                HelmComponentInDirectory(reference_, regdef_, mime_type,
                                         outcome, entered))
    IN  In(EnterTemporaryDirectory(world))

\* (name, version, namespace).
parse_docker_reference(reference_) ==
    LET Parts(p) == <<p[3], p[4], p[2]>>
    IN  Parts(_parse_docker_ref_parts(reference_))

fetch_docker_component_from_reference(comp_config, regdef_, world) ==
    LET Build(parsed, purl) ==
            IF purl.raised
            THEN Raised(Exception("ValueError", purl.error), world)
            ELSE MiniManifest(
                     CdxComponent(
                         _make_bom_ref(comp_config.name, FetchToken(world)),
                         "container", comp_config.mime_type,
                         comp_config.name, Some(parsed[2]),
                         IF parsed[3] # "" THEN Some(parsed[3]) ELSE None,
                         Some(purl.value), None, None, None, None),
                     NextUuid(world))
    IN  Build(parse_docker_reference(comp_config.reference[1]),
              make_docker_purl(comp_config.reference[1], regdef_))

\* Mutant: a component that fails is left out and the loop goes on.
FetchOne_isolated(cfg, regdef_, env, i, acc) ==
    LET comp == cfg.components[i]
        Add(r) ==
            IF r.raised
            THEN [acc EXCEPT !.world = r.world, !.calls = Append(@, i)]
            ELSE [acc EXCEPT !.results = Append(@, <<comp.name, r.value>>),
                             !.world = r.world, !.calls = Append(@, i)]
    IN  IF ~TruthyStr(comp.reference) THEN acc
        ELSE IF comp.mime_type \in _HELM_TYPES
        THEN Add(fetch_helm_component(comp.reference[1], regdef_,
                                      comp.mime_type, env[i], acc.world))
        ELSE IF comp.mime_type \in _DOCKER_TYPES
        THEN Add(fetch_docker_component_from_reference(comp, regdef_,
                                                       acc.world))
        ELSE acc

\* One turn of the loop of fetch_components_from_config, for the i-th
\* component; acc.calls are the components a fetch function was called for.
FetchOne(cfg, regdef_, env, i, acc) ==
    LET comp == cfg.components[i]
        Add(r) ==
            IF r.raised
            THEN [acc EXCEPT !.raised = TRUE, !.exception = r.exception,
                             !.world = r.world, !.calls = Append(@, i)]
            ELSE [acc EXCEPT !.results = Append(@, <<comp.name, r.value>>),
                             !.world = r.world, !.calls = Append(@, i)]
    IN  IF ~TruthyStr(comp.reference) THEN acc
        ELSE IF comp.mime_type \in _HELM_TYPES
        THEN Add(fetch_helm_component(comp.reference[1], regdef_,
                                      comp.mime_type, env[i], acc.world))
        ELSE IF comp.mime_type \in _DOCKER_TYPES
        THEN Add(fetch_docker_component_from_reference(comp, regdef_,
                                                       acc.world))
        ELSE acc

RECURSIVE FetchFrom(_, _, _, _, _)
FetchFrom(cfg, regdef_, env, i, acc) ==
    IF acc.raised \/ i > Len(cfg.components) THEN acc
    ELSE FetchFrom(cfg, regdef_, env, i + 1,
                   FetchOne(cfg, regdef_, env, i, acc))

\* The list of (config_name, bom), or the exception of the component that
\* failed; calls are the components a fetch function was called for.
fetch_components_from_config(cfg, regdef_, env, world) ==
    LET End(acc) ==
            [raised |-> acc.raised, exception |-> acc.exception,
             value |-> IF acc.raised THEN None ELSE Some(acc.results),
             world |-> acc.world, calls |-> acc.calls]
    IN  End(FetchFrom(cfg, regdef_, env, 1,
                      [raised |-> FALSE, exception |-> NoException,
                       results |-> <<>>, world |-> world, calls |-> <<>>]))

-----------------------------------------------------------------------------
(* cli.py: fetch; services/metadata_loader.py *)

\* mime.split("/")[1].split(".")[1] if "/" in mime else "unknown".
Vendor(mime) ==
    IF Contains(mime, "/") THEN Split(Split(mime, "/")[2], ".")[2]
    ELSE "unknown"

\* The name of the file the k-th result is written to.
OutFile(results, k) ==
    LET name == results[k][1]
        bom_ == results[k][2]
        name_counts == Cardinality({ j \in DOMAIN results :
                                       results[j][1] = name })
        mime == IF bom_.components # <<>> THEN bom_.components[1].mime_type
                ELSE ""
    IN  IF name_counts > 1 THEN name \o "_" \o Vendor(mime) \o ".json"
        ELSE name \o ".json"

\* The files of the output directory after every result was written, in the
\* order of the results: a later result replaces an earlier file of the
\* same name.
WriteOutputs(results) ==
    LET files == { OutFile(results, k) : k \in DOMAIN results }
    IN  [ f \in files |->
            results[Max({ k \in DOMAIN results :
                            OutFile(results, k) = f })][2] ]

\* sorted(p.glob("*.json")) over the file names fetch can write here: "." is
\* before "_", and no component name begins another.
FileNames ==
    LET names == <<"a", "b", "envoy", "img", "my-chart">>
        Of(name) == << name \o ".json", name \o "_docker.json",
                       name \o "_nc.json", name \o "_qubership.json" >>
    IN  Of(names[1]) \o Of(names[2]) \o Of(names[3]) \o Of(names[4])
        \o Of(names[5])

_expand_paths(dir) ==
    LET Position(f) == CHOOSE i \in DOMAIN FileNames : FileNames[i] = f
        Before(f) == { g \in DOMAIN dir : Position(g) < Position(f) }
    IN  [ k \in 1..Cardinality(DOMAIN dir) |->
            CHOOSE f \in DOMAIN dir : Cardinality(Before(f)) = k - 1 ]

\* components[0] of the file.
load_mini_manifest(bom_) == bom_.components[1]

\* dict[(name, mime_type)] -> CdxComponent over the files of the directory;
\* the file that is read last wins its key.
load_all_mini_manifests(dir) ==
    LET paths == _expand_paths(dir)
        comp(k) == load_mini_manifest(dir[paths[k]])
        key(k) == <<comp(k).name, comp(k).mime_type>>
        keys == { key(k) : k \in DOMAIN paths }
    IN  [ kk \in keys |->
            comp(Max({ k \in DOMAIN paths : key(k) = kk })) ]

NoFetch ==
    [raised |-> FALSE, exception |-> NoException, value |-> None,
     world |-> World({}, 0, 0), calls |-> <<>>]

\* The values of the fetch variables while build_manifest or purl.py is
\* modelled.
FetchIdle ==
    /\ helm = <<>>
    /\ fetch_pc = "idle"
    /\ fetch_ret = NoFetch
    /\ tmpdirs = {}
    /\ out_dir = <<>>
    /\ exit_code = None

-----------------------------------------------------------------------------
(* Inputs *)

MaxComps == 2
MaxDeps == 2
MaxCharts == 3

\* A component of a mini-manifest as the loaders deliver it.  Its bom-ref was
\* generated by an earlier run: the token is a number below zero that no
\* other component of the table has.
AllNames == <<"a", "b", "p", "q", "r", "s", "t", "img", "qubership-jaeger",
              "jaeger", "envoy">>

AllMimeTypes == <<STANDALONE_RUNNABLE, DOCKER_IMAGE, HELM_CHART, SMARTPLUG,
                  Q_STANDALONE_RUNNABLE, Q_HELM_CHART>>

OldToken(key, pos) ==
    LET n == CHOOSE i \in DOMAIN AllNames : AllNames[i] = key[1]
        m == CHOOSE i \in DOMAIN AllMimeTypes : AllMimeTypes[i] = key[2]
    IN  0 - ((n * 10 + m) * 10 + pos)

DescType(mime_type) ==
    IF mime_type \in _DOCKER_TYPES THEN "container" ELSE "application"

Leaf(name, token) ==
    CdxComponent(<<name, token>>, "data",
                 "application/vnd.nc.resource-profile",
                 name, None, None, None, None, None, None, None)

\* A descriptor with every optional field set and two nested components,
\* one of which has a nested component of its own.
RichDescriptor(key) ==
    CdxComponent(<<key[1], OldToken(key, 0)>>, DescType(key[2]), key[2],
                 key[1], Some("1.0"), Some("core"),
                 Some(<<"pkg", key[1], "1.0">>), None, Some(<<"SHA-256">>),
                 Some(<< [Leaf("values.schema.json", OldToken(key, 1))
                            EXCEPT !.components =
                                Some(<<Leaf("inner", OldToken(key, 2))>>)],
                         Leaf("resource-profile", OldToken(key, 3)) >>),
                 None)

\* A descriptor with only the required fields.
BareDescriptor(key) ==
    CdxComponent(<<key[1], OldToken(key, 0)>>, DescType(key[2]), key[2],
                 key[1], None, None, None, None, None, None, None)

\* "blank" is a bare descriptor whose version is the empty string.
Descriptor(key, shape) ==
    IF shape = "rich" THEN RichDescriptor(key)
    ELSE IF shape = "blank"
    THEN [BareDescriptor(key) EXCEPT !.version = Some("")]
    ELSE BareDescriptor(key)

\* Every table over a subset of keys, each present descriptor in any of shapes.
Tables(keys, shapes) ==
    UNION { { [ k \in present |-> Descriptor(k, f[k]) ] :
              f \in [present -> shapes] } : present \in SUBSET keys }

DeclaredKeys(comps) == { Key(c) : c \in Range(comps) }

LookedUp(comps) ==
    { k \in DeclaredKeys(comps) : k[2] \notin _STANDALONE_TYPES }

\* Family 1: every config of at most MaxComps components over two names,
\* with at most e dependency edges in all; an edge may name any key,
\* declared or not.  Names only matter up to renaming, so the first
\* declared component is called "a".
Names == {"a", "b"}

CoreMimes == {STANDALONE_RUNNABLE, DOCKER_IMAGE, HELM_CHART}

AllMimes == {STANDALONE_RUNNABLE, DOCKER_IMAGE, HELM_CHART, Q_HELM_CHART,
             SMARTPLUG}

DepChoices(mimes) ==
    { DependencyConfig(n, m, p) :
        n \in Names, m \in mimes, p \in {None, Some("images.x")} }

RECURSIVE DepSeqs(_, _)
DepSeqs(k, mimes) ==
    IF k = 0 THEN {<<>>}
    ELSE { Append(s, d) : s \in DepSeqs(k - 1, mimes),
                          d \in DepChoices(mimes) }

\* Component lists of exactly n components and at most e edges.
RECURSIVE CompLists(_, _, _)
CompLists(n, e, mimes) ==
    IF n = 0 THEN {<<>>}
    ELSE UNION { { Append(cs, ComponentConfig(nm, mt, ds)) :
                     cs \in CompLists(n - 1, e - k, mimes),
                     nm \in IF n = 1 THEN {"a"} ELSE Names,
                     mt \in mimes, ds \in DepSeqs(k, mimes) } :
                 k \in 0..e }

SmallConfigsOver(mimes, e) ==
    { BuildConfig("my-app", "1.2.3", cs) :
        cs \in UNION { CompLists(n, e, mimes) : n \in 0..MaxComps } }

\* MaxDeps edges over the three core mime types, one edge less over all.
SmallConfigs ==
    SmallConfigsOver(CoreMimes, MaxDeps)
    \cup SmallConfigsOver(AllMimes, MaxDeps - 1)

\* Family 2: umbrella topologies.  MaxCharts Helm charts with distinct
\* names, each with at most one edge, to a chart (itself included) or to
\* the image, followed or not by the declaration of the image.
ChartNames == <<"p", "q", "r", "s">>

ChartKeys == { <<ChartNames[i], HELM_CHART>> : i \in 1..MaxCharts }

ChartDeps ==
    {<<>>}
    \cup { <<DependencyConfig(k[1], k[2], None)>> : k \in ChartKeys }
    \cup { <<DependencyConfig("img", DOCKER_IMAGE, Some("images.img"))>> }

ChartConfigs ==
    { BuildConfig("my-app", "1.2.3",
                  [ i \in 1..MaxCharts |->
                      ComponentConfig(ChartNames[i], HELM_CHART, d[i]) ]
                  \o tail) :
        d \in [1..MaxCharts -> ChartDeps],
        tail \in {<<>>, <<ComponentConfig("img", DOCKER_IMAGE, <<>>)>>} }

\* Family 3: tests/fixtures/configs/minimal_config.yaml, a standalone that
\* depends on a chart of the same name that depends on two images.
MinimalConfig ==
    BuildConfig("qubership-jaeger", "1.2.3",
        << ComponentConfig("qubership-jaeger", STANDALONE_RUNNABLE,
              <<DependencyConfig("qubership-jaeger", HELM_CHART, None)>>),
           ComponentConfig("qubership-jaeger", HELM_CHART,
              <<DependencyConfig("jaeger", DOCKER_IMAGE, Some("images.jaeger")),
                DependencyConfig("envoy", DOCKER_IMAGE, Some("images.envoy"))>>),
           ComponentConfig("jaeger", DOCKER_IMAGE, <<>>),
           ComponentConfig("envoy", DOCKER_IMAGE, <<>>) >>)

\* Family 4: an umbrella chart with edges to two sub-charts and an image,
\* any non-empty selection of the three edges in any order.
UmbrellaDeps ==
    { DependencyConfig("q", HELM_CHART, None),
      DependencyConfig("r", Q_HELM_CHART, None),
      DependencyConfig("img", DOCKER_IMAGE, Some("images.img")) }

UmbrellaConfigs ==
    { BuildConfig("my-app", "1.2.3",
        << ComponentConfig("p", HELM_CHART, ds),
           ComponentConfig("q", HELM_CHART, <<>>),
           ComponentConfig("r", Q_HELM_CHART, <<>>),
           ComponentConfig("img", DOCKER_IMAGE, <<>>) >>) :
        ds \in UNION { Orders(S) : S \in SUBSET UmbrellaDeps \ {{}} } }

Overrides == {None, Some(""), Some("9.9.9")}

Init ==
    /\ \/ /\ config = MinimalConfig
          /\ mini_manifests \in Tables(LookedUp(config.components),
                                       {"bare", "blank", "rich"})
          /\ version_override \in Overrides
          /\ name_override \in Overrides
       \/ /\ config \in ChartConfigs
          /\ mini_manifests \in Tables(LookedUp(config.components), {"rich"})
          /\ version_override = None
          /\ name_override = None
       \/ /\ config \in SmallConfigs
          /\ mini_manifests \in Tables(LookedUp(config.components), {"rich"})
          /\ version_override = None
          /\ name_override = None
       \/ /\ config \in UmbrellaConfigs
          /\ mini_manifests \in Tables(LookedUp(config.components), {"rich"})
          /\ version_override = None
          /\ name_override = None
    /\ pc = "start"
    /\ bom = NoBom
    /\ warnings = <<>>
    /\ bom_refs = <<>>
    /\ sub_chart_keys = {}
    /\ PurlIdle
    /\ FetchIdle

Next == build_manifest

Spec == Init /\ [][Next]_vars

-----------------------------------------------------------------------------
(* Package URLs: inputs and calls *)

MaxSegs == 4

\* The values of the build variables while purl.py is modelled.
BuildIdle ==
    /\ config = BuildConfig("", "", <<>>)
    /\ mini_manifests = <<>>
    /\ version_override = None
    /\ name_override = None
    /\ pc = "idle"
    /\ bom = NoBom
    /\ warnings = <<>>
    /\ bom_refs = <<>>
    /\ sub_chart_keys = {}

\* Family 1: every reference of at most MaxSegs segments joined by "/".  A
\* segment may be empty, hold a ".", an "@" or one or two ":"; "docker:" or
\* "oci:" followed by an empty segment is a scheme prefix.
Segments == {"", "a", "h.io", "h:5", "a:1", "a:b:1", "a@d", "docker:", "oci:"}

RECURSIVE SegmentLists(_)
SegmentLists(n) ==
    IF n = 0 THEN {<<>>}
    ELSE { Append(segs, seg) : segs \in SegmentLists(n - 1), seg \in Segments }

SegmentReferences ==
    { Join(segs, "/") : segs \in UNION { SegmentLists(n) : n \in 1..MaxSegs } }

\* Family 2: the references of the tests and of the module docstring, and
\* references with two scheme prefixes.
KnownReferences ==
    {"nginx:1.27.0", "ubuntu:22.04", "nginx", "envoyproxy/envoy:v1.32.6",
     "ghcr.io/netcracker/jaeger:1.0", "localhost:5000/svc:2.0",
     "registry.example.com/a/b/c/image:1.0",
     "docker.io/envoyproxy/envoy:v1.32.6",
     "oci://registry.qubership.org/charts/my-chart:1.0",
     "https://h.io/charts/a:1", "http://h.io/a:1",
     "oci://oci://h.io/a:1", "oci://https://h.io/n/a:1", "https://http://a:1"}

\* Family 3: a container reference on one of two hosts, in a namespace that
\* is, extends, merely starts with or differs from the group name "n" ...
GroupReferences ==
    { host \o "/" \o namespace \o "a:1" :
        host \in {"g.io", "h.io"},
        namespace \in {"", "n/", "n/t/", "n-f/", "m/"} }

\* ... and a registry definition R whose docker config has any of these
\* URIs in its four URI fields and any of these group names.
Uris ==
    {None, Some(""), Some("g.io"), Some("https://g.io/"), Some("oci://g.io//"),
     Some("docker://g.io"), Some("http://h.io"), Some("g.io/n"),
     Some("https://oci://g.io")}

GroupNames == {None, Some(""), Some("n"), Some("n/t")}

RegDefs ==
    { Some(RegistryDefinition("R",
             Some(DockerConfig(group_uri, group_name, snapshot_uri, None,
                               release_uri)),
             helm_app_config)) :
        group_uri \in Uris, group_name \in GroupNames,
        snapshot_uri \in {None, Some("h.io")},
        release_uri \in {None, Some("g.io"), Some("https://g.io/")},
        helm_app_config \in {None,
                              Some(HelmAppConfig(Some("oci://g.io")))} }
    \cup { Some(RegistryDefinition("R",
               Some(DockerConfig(None, group_name, None, staging_uri, None)),
               None)) :
             staging_uri \in Uris, group_name \in GroupNames }
    \cup { Some(RegistryDefinition("R", None,
               Some(HelmAppConfig(domain)))) : domain \in Uris }

PurlInit ==
    /\ BuildIdle
    /\ \/ /\ reference \in SegmentReferences \cup KnownReferences
          /\ regdef = None
       \/ /\ reference \in GroupReferences \cup KnownReferences
          /\ regdef \in RegDefs
    /\ purl_pc = "start"
    /\ ret = NoRet
    /\ FetchIdle

\* A call of _parse_docker_ref_parts(reference).
CallParseDockerRefParts ==
    /\ purl_pc = "start"
    /\ purl_pc' = "parsed"
    /\ ret' = Purl("", reference, _parse_docker_ref_parts(reference))
    /\ UNCHANGED <<reference, regdef>>
    /\ UNCHANGED build_vars
    /\ UNCHANGED fetch_vars

\* A call of make_docker_purl(reference, regdef).
CallMakeDockerPurl ==
    /\ purl_pc = "start"
    /\ purl_pc' = "docker"
    /\ ret' = make_docker_purl(reference, regdef)
    /\ UNCHANGED <<reference, regdef>>
    /\ UNCHANGED build_vars
    /\ UNCHANGED fetch_vars

\* A call of make_helm_purl(reference, regdef).
CallMakeHelmPurl ==
    /\ purl_pc = "start"
    /\ purl_pc' = "helm"
    /\ ret' = make_helm_purl(reference, regdef)
    /\ UNCHANGED <<reference, regdef>>
    /\ UNCHANGED build_vars
    /\ UNCHANGED fetch_vars

PurlNext ==
    \/ CallParseDockerRefParts
    \/ CallMakeDockerPurl
    \/ CallMakeHelmPurl

PurlSpec == PurlInit /\ [][PurlNext]_vars

-----------------------------------------------------------------------------
(* Fetch: inputs and calls *)

MaxFetch == 2

\* The Chart.yaml of the pulled chart: its name is the name "a" or "my-chart"
\* the config declares, another name, or absent.
ChartYaml(name, version, appVersion) ==
    [name |-> name, version |-> version, appVersion |-> appVersion]

ChartYamls ==
    { ChartYaml(Some("a"), Some("1"), None),
      ChartYaml(Some("my-chart"), Some("1.0.0"), Some("2.0")),
      ChartYaml(Some("other-chart"), Some("2.0.0"), Some("")),
      ChartYaml(None, None, None) }

\* Every way a `helm pull` of a chart can go.
Outcomes ==
    { Outcome(pull, "chart", ChartYaml(None, None, None), FALSE, <<>>) :
        pull \in {"missing", "timeout", "failed", "empty"} }
    \cup { Outcome("ok", archive, ChartYaml(None, None, None), FALSE, <<>>) :
             archive \in {"corrupt", "no_chart", "unreadable", "empty_yaml"} }
    \cup { Outcome("ok", "chart", chart_yaml, FALSE, <<>>) :
             chart_yaml \in ChartYamls }
    \cup { Outcome("ok", "chart", chart_yaml, TRUE, <<"dev.yaml", "prod.yaml">>) :
             chart_yaml \in ChartYamls }

\* helm is not run for a component that is not a chart.
NoOutcome == Outcome("missing", "chart", ChartYaml(None, None, None), FALSE, <<>>)

WithOutcomes(comp) ==
    IF comp.mime_type \in _HELM_TYPES /\ TruthyStr(comp.reference)
    THEN { <<comp, outcome>> : outcome \in Outcomes }
    ELSE { <<comp, NoOutcome>> }

\* Family 1: every list of at most MaxFetch of these components: charts with
\* a reference that has or lacks a version, images with a reference that has
\* a group, no group or no image name, components without a reference or
\* with an empty one, and a standalone component with a reference.
FetchMenu ==
    { ComponentConfigWithReference("a", HELM_CHART,
                                   Some("oci://g.io/n/a:1"), <<>>),
      ComponentConfigWithReference("a", Q_HELM_CHART,
                                   Some("oci://g.io/n/a"), <<>>),
      ComponentConfigWithReference("img", DOCKER_IMAGE,
                                   Some("g.io/n/img:1"), <<>>),
      ComponentConfigWithReference("img", DOCKER_IMAGE,
                                   Some("g.io/n/:1"), <<>>),
      ComponentConfigWithReference("b", DOCKER_IMAGE,
                                   Some("localhost:5000/b:2.0"), <<>>),
      ComponentConfigWithReference("img", DOCKER_IMAGE, None, <<>>),
      ComponentConfigWithReference("b", HELM_CHART, Some(""), <<>>),
      ComponentConfigWithReference("a", STANDALONE_RUNNABLE,
                                   Some("g.io/n/a:1"), <<>>) }

RECURSIVE FetchLists(_)
FetchLists(n) ==
    IF n = 0 THEN {<<>>}
    ELSE { Append(entries, entry) :
             entries \in FetchLists(n - 1),
             entry \in UNION { WithOutcomes(comp) : comp \in FetchMenu } }

\* Family 2: two charts of one name and different mime types, the second
\* with a reference to a chart of another name.
DuplicateNameComponents ==
    << ComponentConfigWithReference("my-chart", HELM_CHART,
           Some("oci://registry.example.com/charts/my-chart:1.0.0"), <<>>),
       ComponentConfigWithReference("my-chart", Q_HELM_CHART,
           Some("oci://registry.example.com/charts/other-chart:2.0.0"), <<>>) >>

\* Family 3: a standalone component without a reference, then a chart, an
\* image, a chart and an image that depend on nothing or, the first chart,
\* on the first image.
SequenceComponents(depends_on) ==
    << ComponentConfigWithReference("a", STANDALONE_RUNNABLE, None, <<>>),
       ComponentConfigWithReference("a", HELM_CHART,
                                    Some("oci://g.io/n/a:1"), depends_on),
       ComponentConfigWithReference("img", DOCKER_IMAGE,
                                    Some("g.io/n/img:1"), <<>>),
       ComponentConfigWithReference("b", HELM_CHART,
                                    Some("oci://g.io/n/b:1"), <<>>),
       ComponentConfigWithReference("envoy", DOCKER_IMAGE,
                                    Some("envoyproxy/envoy:v1.32.6"), <<>>) >>

\* Every way the charts of a component list can be pulled.
RECURSIVE PulledLists(_)
PulledLists(comps) ==
    IF comps = <<>> THEN {<<>>}
    ELSE { Append(entries, entry) :
             entries \in PulledLists(SubSeq(comps, 1, Len(comps) - 1)),
             entry \in WithOutcomes(comps[Len(comps)]) }

FetchEntries ==
    UNION { FetchLists(n) : n \in 0..MaxFetch }
    \cup PulledLists(DuplicateNameComponents)
    \cup PulledLists(SequenceComponents(<<>>))
    \cup PulledLists(SequenceComponents(
                       << DependencyConfig("img", DOCKER_IMAGE, None) >>))

FetchRegDefs ==
    { None,
      Some(RegistryDefinition("R",
               Some(DockerConfig(Some("g.io"), Some("n"), None, None, None)),
               Some(HelmAppConfig(Some("oci://g.io"))))) }

FetchInit ==
    /\ \E entries \in FetchEntries :
         /\ config = BuildConfig("test-app", "1.0.0",
                                 [ i \in DOMAIN entries |-> entries[i][1] ])
         /\ helm = [ i \in DOMAIN entries |-> entries[i][2] ]
    /\ regdef \in FetchRegDefs
    /\ mini_manifests = <<>>
    /\ version_override = None
    /\ name_override = None
    /\ pc = "idle"
    /\ bom = NoBom
    /\ warnings = <<>>
    /\ bom_refs = <<>>
    /\ sub_chart_keys = {}
    /\ reference = ""
    /\ purl_pc = "idle"
    /\ ret = NoRet
    /\ fetch_pc = "start"
    /\ fetch_ret = NoFetch
    /\ tmpdirs = {}
    /\ out_dir = <<>>
    /\ exit_code = None

\* A call of fetch_helm_component for the i-th component, a chart with a
\* reference.
CallFetchHelmComponent ==
    /\ fetch_pc = "start"
    /\ \E i \in DOMAIN config.components :
         /\ config.components[i].mime_type \in _HELM_TYPES
         /\ TruthyStr(config.components[i].reference)
         /\ \E r \in {fetch_helm_component(
                          config.components[i].reference[1], regdef,
                          config.components[i].mime_type, helm[i],
                          World(tmpdirs, 0, 0))} :
              /\ fetch_ret' = [raised |-> r.raised,
                               exception |-> r.exception,
                               value |-> r.value, world |-> r.world,
                               calls |-> <<i>>]
              /\ tmpdirs' = r.world.tmpdirs
    /\ fetch_pc' = "helm"
    /\ UNCHANGED <<helm, out_dir, exit_code>>
    /\ UNCHANGED build_vars
    /\ UNCHANGED purl_vars

\* A call of fetch_components_from_config(config, regdef).
CallFetchComponentsFromConfig ==
    /\ fetch_pc = "start"
    /\ \E r \in {fetch_components_from_config(config, regdef, helm,
                                              World(tmpdirs, 0, 0))} :
         /\ fetch_ret' = r
         /\ tmpdirs' = r.world.tmpdirs
    /\ fetch_pc' = "fetched"
    /\ UNCHANGED <<helm, out_dir, exit_code>>
    /\ UNCHANGED build_vars
    /\ UNCHANGED purl_vars

\* The fetch command: every result is written after the whole fetch
\* returned; an exception becomes a ClickException, which ends the command
\* with exit code 1.
fetch ==
    /\ fetch_pc = "start"
    /\ \E r \in {fetch_components_from_config(config, regdef, helm,
                                              World(tmpdirs, 0, 0))} :
         /\ fetch_ret' = r
         /\ tmpdirs' = r.world.tmpdirs
         /\ IF r.raised
            THEN /\ out_dir' = out_dir
                 /\ exit_code' = Some(1)
            ELSE /\ out_dir' = WriteOutputs(r.value[1])
                 /\ exit_code' = Some(0)
    /\ fetch_pc' = "written"
    /\ UNCHANGED helm
    /\ UNCHANGED build_vars
    /\ UNCHANGED purl_vars

\* A call of load_all_mini_manifests on the output directory of a fetch
\* command that ended with exit code 0; the table is then handed to
\* build_manifest with the same config.
CallLoadAllMiniManifests ==
    /\ fetch_pc = "written"
    /\ exit_code = Some(0)
    /\ mini_manifests' = load_all_mini_manifests(out_dir)
    /\ pc' = "start"
    /\ fetch_pc' = "loaded"
    /\ UNCHANGED <<config, version_override, name_override, bom, warnings,
                   bom_refs, sub_chart_keys>>
    /\ UNCHANGED <<helm, fetch_ret, tmpdirs, out_dir, exit_code>>
    /\ UNCHANGED purl_vars

FetchNext ==
    \/ CallFetchHelmComponent
    \/ CallFetchComponentsFromConfig
    \/ fetch
    \/ CallLoadAllMiniManifests
    \/ build_manifest

FetchSpec == FetchInit /\ [][FetchNext]_vars

-----------------------------------------------------------------------------
(* Reading the inputs and the returned manifest *)

Children(c) == IF c.components = None THEN <<>> ELSE c.components[1]

PropsOf(c) == IF c.properties = None THEN <<>> ELSE c.properties[1]

\* Every component of a component list, nested ones included, in preorder.
RECURSIVE Tree(_)
Tree(cs) ==
    IF cs = <<>> THEN <<>>
    ELSE <<Head(cs)>> \o Tree(Children(Head(cs))) \o Tree(Tail(cs))

OutputTree == Tree(bom.components)

\* How many components of the output tree carry the bom-ref r.
Occurrences(r) ==
    Cardinality({ i \in DOMAIN OutputTree : OutputTree[i].bom_ref = r })

IsHelm(c) == c.mime_type \in {HELM_CHART, Q_HELM_CHART}

IsStandalone(c) ==
    c.mime_type \in {STANDALONE_RUNNABLE, Q_STANDALONE_RUNNABLE}

ListsAsDep(p, s) == \E j \in DOMAIN p.depends_on : Key(p.depends_on[j]) = Key(s)

\* s is a declared chart that some declared chart depends on.
DeclaredSubChart(s) ==
    /\ IsHelm(s)
    /\ \E i \in DOMAIN config.components :
         IsHelm(config.components[i]) /\ ListsAsDep(config.components[i], s)

HasDescriptor(c) == Key(c) \in DOMAIN mini_manifests

\* The identifier generated for a declared component.
IdOf(c) == bom_refs[Key(c)]

\* The components of the output tree that carry the identifier of c.
OutputOf(c) == { i \in DOMAIN OutputTree : OutputTree[i].bom_ref = IdOf(c) }

NestedIn(s, i) ==
    \E k \in DOMAIN Children(OutputTree[i]) :
        Children(OutputTree[i])[k].bom_ref = IdOf(s)

Warned(c) ==
    \E w \in DOMAIN warnings :
        /\ \E k \in DOMAIN warnings[w] : warnings[w][k] = c.name
        /\ \E k \in DOMAIN warnings[w] : warnings[w][k] = c.mime_type
        /\ \E k \in DOMAIN warnings[w] :
               warnings[w][k] = "not found in mini-manifests"

AppEntry == bom.dependencies[1]

-----------------------------------------------------------------------------
(* Claims *)

\* C1: for every config and every descriptor table build_manifest returns
\* (manifest, warnings); it never ends in a raised error.
C1_NeverRaises == pc # "raised"

\* C2: a declared Helm chart that a declared Helm chart depends on is never a
\* top-level component of the manifest, and its identifier is never listed
\* in the application's dependency entry.
C2_SubChartNeverTopLevel ==
    pc = "done" =>
        \A n \in DOMAIN config.components :
            LET s == config.components[n]
            IN  DeclaredSubChart(s) =>
                  /\ \A i \in DOMAIN bom.components :
                        /\ <<bom.components[i].name,
                             bom.components[i].mime_type>> # Key(s)
                        /\ bom.components[i].bom_ref # IdOf(s)
                  /\ \A j \in DOMAIN AppEntry.depends_on :
                        AppEntry.depends_on[j] # IdOf(s)

\* C2 witness: a sub-chart was nested in a chart that is at the top level.
C2_Witness ==
    /\ pc = "done"
    /\ \E n \in DOMAIN config.components, i \in DOMAIN bom.components :
         /\ DeclaredSubChart(config.components[n])
         /\ \E k \in DOMAIN Children(bom.components[i]) :
                Children(bom.components[i])[k].bom_ref
                    = IdOf(config.components[n])

\* Every dependency edge on a declared component names one that is declared
\* later: no chart depends on itself and there is no cycle.
ForwardEdgesOnly ==
    \A m, n \in DOMAIN config.components :
        ListsAsDep(config.components[m], config.components[n]) => m < n

\* C3: when a declared chart P with a descriptor depends on a declared chart
\* S, the output has S in the nested components of P's output component,
\* at every nesting depth.  Stated for the configs the claim is about: no
\* dependency cycle, and a descriptor for every declared chart.
C3_NestedAtEveryDepth ==
    ( /\ pc = "done"
      /\ ForwardEdgesOnly
      /\ \A n \in DOMAIN config.components :
            IsHelm(config.components[n]) => HasDescriptor(config.components[n]) )
    =>
        \A m, n \in DOMAIN config.components :
            LET P == config.components[m]
                S == config.components[n]
            IN  ( IsHelm(P) /\ IsHelm(S) /\ HasDescriptor(P)
                  /\ ListsAsDep(P, S) )
                => \E i \in OutputOf(P) : NestedIn(S, i)

\* C4: a declared chart S that two different declared top-level charts P1 and
\* P2 (descriptors present) depend on is nested only under the first of them
\* in declared order, so S occurs exactly once in the output tree.
C4_NestedUnderFirstParentOnly ==
    pc = "done" =>
        \A m1, m2, n \in DOMAIN config.components :
            LET P1 == config.components[m1]
                P2 == config.components[m2]
                S == config.components[n]
            IN  ( /\ m1 < m2
                  /\ Key(P1) # Key(P2)
                  /\ IsHelm(P1) /\ IsHelm(P2) /\ IsHelm(S)
                  /\ ~DeclaredSubChart(P1) /\ ~DeclaredSubChart(P2)
                  /\ HasDescriptor(P1) /\ HasDescriptor(P2)
                  /\ ListsAsDep(P1, S) /\ ListsAsDep(P2, S)
                  /\ \A m \in 1..(m1 - 1) :
                        ~( IsHelm(config.components[m])
                           /\ ListsAsDep(config.components[m], S) ) )
                => /\ Occurrences(IdOf(S)) = 1
                   /\ \E i \in OutputOf(P1) : NestedIn(S, i)
                   /\ \A i \in OutputOf(P2) : ~NestedIn(S, i)

\* C5: when the declared keys are pairwise distinct, the bom-refs of the
\* metadata component and of every component of the output tree are
\* pairwise distinct, and each is <component name>:<token>.
C5_BomRefsDistinct ==
    ( /\ pc = "done"
      /\ \A m, n \in DOMAIN config.components :
            Key(config.components[m]) = Key(config.components[n]) => m = n )
    => /\ \A i, j \in DOMAIN OutputTree :
            OutputTree[i].bom_ref = OutputTree[j].bom_ref => i = j
       /\ \A i \in DOMAIN OutputTree :
            /\ OutputTree[i].bom_ref # bom.metadata.component.bom_ref
            /\ OutputTree[i].bom_ref[1] = OutputTree[i].name
       /\ bom.metadata.component.bom_ref[1] = bom.metadata.component.name

\* The bom-refs that occur in the descriptor table, at any depth.
InputRefs ==
    UNION { { Tree(<<mini_manifests[k]>>)[i].bom_ref :
                i \in DOMAIN Tree(<<mini_manifests[k]>>) } :
            k \in DOMAIN mini_manifests }

\* C6: no component of the output tree, at any depth, keeps a bom-ref that
\* occurs in the input descriptor table.
C6_NoInputRefKept ==
    pc = "done" =>
        \A i \in DOMAIN OutputTree : OutputTree[i].bom_ref \notin InputRefs

\* C7: with the empty descriptor table build_manifest succeeds, the top-level
\* components are exactly the declared standalone-runnables, and every other
\* declared component, sub-charts included, is omitted and reported by a
\* warning.  Stated for configs without a dependency cycle.
C7_EmptyTable ==
    ( DOMAIN mini_manifests = {} /\ ForwardEdgesOnly ) =>
        /\ pc # "raised"
        /\ pc = "done" =>
            LET standalone == SelectSeq(config.components, IsStandalone)
            IN  /\ Len(bom.components) = Len(standalone)
                /\ \A i \in DOMAIN standalone :
                      /\ bom.components[i].name = standalone[i].name
                      /\ bom.components[i].mime_type = standalone[i].mime_type
                /\ \A n \in DOMAIN config.components :
                      ~IsStandalone(config.components[n]) =>
                          /\ \A i \in DOMAIN OutputTree :
                                <<OutputTree[i].name, OutputTree[i].mime_type>>
                                    # Key(config.components[n])
                          /\ Warned(config.components[n])

\* The declared components of minimal_config.yaml.
ScenarioS == MinimalConfig.components[1]
ScenarioH == MinimalConfig.components[2]
ScenarioI1 == MinimalConfig.components[3]
ScenarioI2 == MinimalConfig.components[4]

\* C8 (scenario B): with the descriptors of both images present and the
\* chart's missing, there is exactly one top-level component, the standalone,
\* exactly one warning, which names the chart and says "not found in
\* mini-manifests", and the chart's identifier occurs nowhere in the
\* dependency list.
C8_ScenarioB ==
    ( /\ pc = "done"
      /\ config = MinimalConfig
      /\ DOMAIN mini_manifests = {Key(ScenarioI1), Key(ScenarioI2)} )
    => /\ Len(bom.components) = 1
       /\ bom.components[1].mime_type = STANDALONE_RUNNABLE
       /\ Len(warnings) = 1
       /\ Warned(ScenarioH)
       /\ \A d \in DOMAIN bom.dependencies :
            /\ bom.dependencies[d].ref # IdOf(ScenarioH)
            /\ \A j \in DOMAIN bom.dependencies[d].depends_on :
                  bom.dependencies[d].depends_on[j] # IdOf(ScenarioH)

\* The value of the artifactMappings property of c, if it has one.
ArtifactMappings(c) ==
    { PropsOf(c)[i].value :
        i \in { k \in DOMAIN PropsOf(c) :
                  PropsOf(c)[k].name = "qubership:helm.values.artifactMappings" } }

HasEntry(ref, depends_on) ==
    \E d \in DOMAIN bom.dependencies :
        /\ bom.dependencies[d].ref = ref
        /\ bom.dependencies[d].depends_on = depends_on

ScenarioA ==
    /\ pc = "done"
    /\ config = MinimalConfig
    /\ DOMAIN mini_manifests
         = {Key(ScenarioH), Key(ScenarioI1), Key(ScenarioI2)}

\* C9 (scenario A): with the descriptors of the chart and both images present
\* there are no warnings and 4 top-level components; the first dependency
\* entry goes from the application to the 4 components, there is an entry
\* S -> [H] and an entry H -> [I1, I2], and the chart's artifactMappings has
\* exactly 2 keys, the bom-refs of the two image components.
C9_ScenarioA ==
    ScenarioA =>
        LET c == bom.components
        IN  /\ warnings = <<>>
            /\ Len(c) = 4
            /\ <<c[1].name, c[1].mime_type>> = Key(ScenarioS)
            /\ <<c[2].name, c[2].mime_type>> = Key(ScenarioH)
            /\ <<c[3].name, c[3].mime_type>> = Key(ScenarioI1)
            /\ <<c[4].name, c[4].mime_type>> = Key(ScenarioI2)
            /\ AppEntry.ref = bom.metadata.component.bom_ref
            /\ AppEntry.depends_on
                 = <<c[1].bom_ref, c[2].bom_ref, c[3].bom_ref, c[4].bom_ref>>
            /\ HasEntry(c[1].bom_ref, <<c[2].bom_ref>>)
            /\ HasEntry(c[2].bom_ref, <<c[3].bom_ref, c[4].bom_ref>>)
            /\ Cardinality(ArtifactMappings(c[2])) = 1
            /\ \A mapping \in ArtifactMappings(c[2]) :
                  /\ DOMAIN mapping = {c[3].bom_ref, c[4].bom_ref}
                  /\ Cardinality(DOMAIN mapping) = 2

\* C9 witness: scenario A was built, with a name and a version override.
C9_Witness ==
    /\ ScenarioA
    /\ version_override = Some("9.9.9")
    /\ name_override = Some("9.9.9")
    /\ Len(bom.components) = 4

\* The declared components that are not sub-charts, in declared order.
DeclaredTopLevel ==
    SelectSeq(config.components, LAMBDA c : ~DeclaredSubChart(c))

\* C10: the first dependency entry goes from the metadata component's bom-ref
\* to the identifiers of all declared non-sub-chart components in declared
\* order; it is there even when that list is empty, and no sub-chart
\* identifier occurs in it.
C10_AppEntry ==
    pc = "done" =>
        /\ Len(bom.dependencies) >= 1
        /\ AppEntry.ref = bom.metadata.component.bom_ref
        /\ AppEntry.depends_on
             = [ i \in 1..Len(DeclaredTopLevel) |-> IdOf(DeclaredTopLevel[i]) ]
        /\ \A n \in DOMAIN config.components :
              DeclaredSubChart(config.components[n]) =>
                  \A j \in DOMAIN AppEntry.depends_on :
                      AppEntry.depends_on[j] # IdOf(config.components[n])

\* C10 witness: a config with a sub-chart and a top-level component that is
\* declared after it.
C10_Witness ==
    /\ pc = "done"
    /\ \E m, n \in DOMAIN config.components :
         /\ m < n
         /\ DeclaredSubChart(config.components[m])
         /\ ~DeclaredSubChart(config.components[n])
         /\ AppEntry.depends_on # <<>>

\* The declared keys are pairwise distinct.
DistinctKeys ==
    \A m, n \in DOMAIN config.components :
        Key(config.components[m]) = Key(config.components[n]) => m = n

IsDeclared(dep) ==
    \E n \in DOMAIN config.components : Key(config.components[n]) = Key(dep)

\* The identifiers of the declared targets of c, in depends_on order.
ResolvedTargets(c) ==
    LET declared == SelectSeq(c.depends_on, IsDeclared)
    IN  [ j \in 1..Len(declared) |-> IdOf(declared[j]) ]

\* The positions of the dependency entries whose ref is r.
EntriesOf(r) == { d \in DOMAIN bom.dependencies : bom.dependencies[d].ref = r }

\* Every warning reports a declared component that has no descriptor.
OnlyLookupWarnings ==
    \A w \in DOMAIN warnings :
        \E n \in DOMAIN config.components :
            /\ ~HasDescriptor(config.components[n])
            /\ warnings[w][2] = config.components[n].name
            /\ warnings[w][4] = config.components[n].mime_type

\* C11: every declared component that is not a sub-chart and has an edge to a
\* declared key has exactly one dependency entry, from its identifier to the
\* identifiers of its declared targets in depends_on order; edges to
\* undeclared targets are dropped and cause no warning; a component without
\* a declared target has no entry.
C11_TopLevelEntries ==
    pc = "done" =>
        /\ OnlyLookupWarnings
        /\ \A n \in DOMAIN config.components :
              LET c == config.components[n]
              IN  ~DeclaredSubChart(c) =>
                    IF ResolvedTargets(c) # <<>>
                    THEN /\ Cardinality(EntriesOf(IdOf(c))) = 1
                         /\ \A d \in EntriesOf(IdOf(c)) :
                               bom.dependencies[d].depends_on
                                   = ResolvedTargets(c)
                    ELSE EntriesOf(IdOf(c)) = {}

\* The same statement for configs whose declared keys are pairwise distinct;
\* it holds in every returned manifest.
TopLevelEntriesDistinctKeys == DistinctKeys => C11_TopLevelEntries

\* C12: every declared sub-chart with an edge to a declared key has exactly
\* one dependency entry, from its identifier (the one its nested output
\* component carries) to the identifiers of its declared targets in
\* depends_on order, placed after the entries of all top-level components.
C12_SubChartEntries ==
    pc = "done" =>
        \A n \in DOMAIN config.components :
            LET s == config.components[n]
            IN  ( DeclaredSubChart(s) /\ ResolvedTargets(s) # <<>> ) =>
                  /\ Cardinality(EntriesOf(IdOf(s))) = 1
                  /\ \A d \in EntriesOf(IdOf(s)) :
                        /\ bom.dependencies[d].depends_on = ResolvedTargets(s)
                        /\ \A m \in DOMAIN config.components :
                              ~DeclaredSubChart(config.components[m]) =>
                                  \A e \in EntriesOf(IdOf(config.components[m])) :
                                      e < d
                        /\ d > 1
                  /\ \A i \in DOMAIN OutputTree :
                        <<OutputTree[i].name, OutputTree[i].mime_type>> = Key(s)
                            => OutputTree[i].bom_ref = IdOf(s)

\* The same statement for configs whose declared keys are pairwise distinct;
\* it holds in every returned manifest.
SubChartEntriesDistinctKeys == DistinctKeys => C12_SubChartEntries

\* The declared components that build_manifest turns into top-level
\* components, in declared order: bom.components[i] is built from Emitted[i].
Emitted ==
    SelectSeq(config.components,
              LAMBDA c : /\ ~DeclaredSubChart(c)
                         /\ IsStandalone(c) \/ HasDescriptor(c))

\* The non-Helm edges of c that carry a values_path_prefix.
PrefixEdges(c) ==
    { j \in DOMAIN c.depends_on :
        /\ ~IsHelm(c.depends_on[j])
        /\ c.depends_on[j].values_path_prefix # None }

DeclaredPrefixEdges(c) ==
    { j \in PrefixEdges(c) : IsDeclared(c.depends_on[j]) }

\* x, built from the declaration c, has the properties the claim describes
\* when `edges` are the edges that count.
HelmPropertiesFrom(x, c, edges) ==
    /\ PropsOf(x) # <<>>
    /\ PropsOf(x)[1] = CdxProperty("isLibrary", FALSE)
    /\ Cardinality({ k \in DOMAIN PropsOf(x) :
                       PropsOf(x)[k].name = "isLibrary" }) = 1
    /\ ArtifactMappings(x) # {} <=> edges # {}
    /\ Cardinality(ArtifactMappings(x)) <= 1
    /\ \A mapping \in ArtifactMappings(x) :
          /\ Cardinality(DOMAIN mapping)
               = Cardinality({ Key(c.depends_on[j]) : j \in edges })
          /\ \A j \in edges :
                IsDeclared(c.depends_on[j]) =>
                    /\ IdOf(c.depends_on[j]) \in DOMAIN mapping
                    /\ \E k \in edges :
                          /\ Key(c.depends_on[k]) = Key(c.depends_on[j])
                          /\ mapping[IdOf(c.depends_on[j])]
                               = [valuesPathPrefix |->
                                    c.depends_on[k].values_path_prefix[1]]

\* Every Helm component of the output has the properties described, the
\* edges that count being given by Edges(c): a top-level one is compared
\* with its declaration, a nested one with a declaration of its key.
HelmOutputsHave(Edges(_)) ==
    /\ \A i \in DOMAIN bom.components :
          IsHelm(bom.components[i]) =>
              HelmPropertiesFrom(bom.components[i], Emitted[i],
                                 Edges(Emitted[i]))
    /\ \A i \in DOMAIN bom.components :
          \A k \in DOMAIN Children(bom.components[i]) :
              LET x == Children(bom.components[i])[k]
              IN  IsHelm(x) =>
                    \E n \in DOMAIN config.components :
                        /\ Key(config.components[n]) = <<x.name, x.mime_type>>
                        /\ HelmPropertiesFrom(x, config.components[n],
                                              Edges(config.components[n]))

C14_MappingKeysAreContainers ==
    pc = "done" =>
        \A i \in DOMAIN OutputTree :
            IsHelm(OutputTree[i]) =>
                \A mapping \in ArtifactMappings(OutputTree[i]) :
                    \A key \in DOMAIN mapping :
                        \E k \in DOMAIN bom.components :
                            /\ bom.components[k].bom_ref = key
                            /\ bom.components[k].type = "container"

\* The declared top-level components of non-standalone type whose key is not
\* in the descriptor table, in declared order.
MissingTopLevel ==
    SelectSeq(config.components,
              LAMBDA c : /\ ~DeclaredSubChart(c)
                         /\ ~IsStandalone(c)
                         /\ ~HasDescriptor(c))

\* C15: the warnings are, in declared order, exactly one per top-level
\* declared component of non-standalone type without a descriptor, each with
\* the component's name, its mime-type value and "not found in
\* mini-manifests"; such a component is left out of the output and the build
\* goes on: the top-level components are exactly the remaining top-level
\* declarations, in declared order.
C15_LookupMissWarnings ==
    pc = "done" =>
        /\ Len(warnings) = Len(MissingTopLevel)
        /\ \A i \in DOMAIN warnings :
              /\ \E k \in DOMAIN warnings[i] :
                    warnings[i][k] = MissingTopLevel[i].name
              /\ \E k \in DOMAIN warnings[i] :
                    warnings[i][k] = MissingTopLevel[i].mime_type
              /\ \E k \in DOMAIN warnings[i] :
                    warnings[i][k] = "not found in mini-manifests"
        /\ Len(bom.components) = Len(Emitted)
        /\ \A i \in DOMAIN bom.components :
              <<bom.components[i].name, bom.components[i].mime_type>>
                  = Key(Emitted[i])

\* C15 witness: a component was left out with a warning and a component
\* declared after it was built.
C15_Witness ==
    /\ pc = "done"
    /\ Len(warnings) = 1
    /\ \E m, n \in DOMAIN config.components :
          /\ m < n
          /\ ~DeclaredSubChart(config.components[m])
          /\ ~IsStandalone(config.components[m])
          /\ ~HasDescriptor(config.components[m])
          /\ HasDescriptor(config.components[n])
          /\ \E i \in DOMAIN bom.components :
                bom.components[i].bom_ref = IdOf(config.components[n])

\* What is left of a component list when the identifiers are erased: no
\* bom-ref at any depth, and the keys of an artifactMappings property
\* replaced by the (name, mime_type) they stand for in refs.
RECURSIVE EraseComponents(_, _)
EraseComponents(cs, refs) ==
    [ i \in DOMAIN cs |->
        [ cs[i] EXCEPT
            !.bom_ref = None,
            !.components =
                IF cs[i].components = None THEN None
                ELSE Some(EraseComponents(cs[i].components[1], refs)),
            !.properties =
                IF cs[i].properties = None THEN None
                ELSE Some([ k \in DOMAIN cs[i].properties[1] |->
                    LET prop == cs[i].properties[1][k]
                    IN  IF prop.name # "qubership:helm.values.artifactMappings"
                        THEN prop
                        ELSE CdxProperty(prop.name,
                               { <<key, prop.value[refs[key]]>> :
                                   key \in { x \in DOMAIN refs :
                                               refs[x] \in DOMAIN prop.value } })
                    ]) ] ]

\* The (name, mime_type) an identifier of a dependency entry stands for.
EraseRef(ref, refs) ==
    IF \E key \in DOMAIN refs : refs[key] = ref
    THEN CHOOSE key \in DOMAIN refs : refs[key] = ref
    ELSE <<"application">>

EraseDependencies(deps, refs) ==
    [ d \in DOMAIN deps |->
        CdxDependency(EraseRef(deps[d].ref, refs),
                      [ j \in DOMAIN deps[d].depends_on |->
                          EraseRef(deps[d].depends_on[j], refs) ]) ]

\* A manifest and its warnings with the identifiers erased.
Erased(b, w, refs) ==
    [name |-> b.metadata.component.name,
     version |-> b.metadata.component.version,
     components |-> EraseComponents(b.components, refs),
     dependencies |-> EraseDependencies(b.dependencies, refs),
     warnings |-> w]

\* C16: a second run of build_manifest on the same config and descriptor
\* table returns, identifiers erased, the manifest and the warnings of the
\* first run, the order of the sub-charts' dependency entries included.
\* Stated for configs without a dependency cycle.
C16_RunsAgree ==
    ( pc = "done" /\ ForwardEdgesOnly ) =>
        \A sub_order \in Orders(_find_sub_charts(config)) :
            LET second == BuildResult(config, mini_manifests,
                                      version_override, name_override,
                                      sub_order)
            IN  /\ ~second.raised
                /\ Erased(second.bom, second.warnings, second.bom_refs)
                     = Erased(bom, warnings, bom_refs)

\* The same with the dependency entries taken as an unordered collection; it
\* holds for every config.
RunsAgreeUpToEntryOrder ==
    pc = "done" =>
        \A sub_order \in Orders(_find_sub_charts(config)) :
            LET second == BuildResult(config, mini_manifests,
                                      version_override, name_override,
                                      sub_order)
                e1 == Erased(second.bom, second.warnings, second.bom_refs)
                e2 == Erased(bom, warnings, bom_refs)
            IN  /\ ~second.raised
                /\ [e1 EXCEPT !.dependencies = {}]
                     = [e2 EXCEPT !.dependencies = {}]
                /\ Len(e1.dependencies) = Len(e2.dependencies)
                /\ \A d \in DOMAIN e1.dependencies :
                      Cardinality({ x \in DOMAIN e1.dependencies :
                                      e1.dependencies[x] = e1.dependencies[d] })
                      = Cardinality({ x \in DOMAIN e2.dependencies :
                                      e2.dependencies[x] = e1.dependencies[d] })

-----------------------------------------------------------------------------
(* Claims about purl.py, checked under PurlSpec *)

\* The segments of the reference, read as host/ns1/.../nsN/last.
RefSegments == Split(reference, "/")

LastSegment == RefSegments[Len(RefSegments)]

\* _parse_docker_ref_parts returned host, ns1/.../nsN, name and tag, and
\* these reassemble to the reference.
Recovered(name, tag) ==
    /\ ret.registry = RefSegments[1]
    /\ ret.namespace = Join(SubSeq(RefSegments, 2, Len(RefSegments) - 1), "/")
    /\ ret.name = name
    /\ ret.version = tag
    /\ ret.registry \o "/" \o ret.namespace \o "/" \o ret.name \o ":"
         \o ret.version = reference

\* C17: for every reference host/ns1/.../nsN/name:tag with N >= 1 and a name
\* free of ":", _parse_docker_ref_parts returns registry = host, namespace =
\* ns1/.../nsN, the name and version = tag, and joining them gives back the
\* reference.
C17_DockerRoundTrip ==
    ( purl_pc = "parsed" /\ Len(RefSegments) >= 3 ) =>
        \A i \in 1..Len(LastSegment) :
            ( /\ CharAt(LastSegment, i) = ":"
              /\ ~Contains(SubSeq(LastSegment, 1, i - 1), ":") )
            => Recovered(SubSeq(LastSegment, 1, i - 1),
                         SubSeq(LastSegment, i + 1, Len(LastSegment)))

\* C17 amended: the same for every such reference with a tag free of ":"
\* (the name may hold one) that does not start with the scheme docker://.
C17_DockerRoundTripTagFreeOfColon ==
    ( /\ purl_pc = "parsed"
      /\ Len(RefSegments) >= 3
      /\ ~StartsWith(reference, "docker://") ) =>
        \A i \in 1..Len(LastSegment) :
            ( /\ CharAt(LastSegment, i) = ":"
              /\ ~Contains(SubSeq(LastSegment, i + 1, Len(LastSegment)), ":") )
            => Recovered(SubSeq(LastSegment, 1, i - 1),
                         SubSeq(LastSegment, i + 1, Len(LastSegment)))

\* C17 witness: a reference with a port in the host, two namespace segments
\* and a ":" in the name was parsed.
C17_Witness ==
    /\ purl_pc = "parsed"
    /\ Len(RefSegments) = 4
    /\ Contains(RefSegments[1], ":")
    /\ RefSegments[2] # "" /\ RefSegments[3] # ""
    /\ Contains(ret.name, ":")
    /\ ret.version = "1"

\* C18: a container reference of 2 segments has its first segment as
\* registry and an empty namespace when that segment holds "." or ":", and
\* as namespace under docker.io otherwise; one of 1 segment is in
\* docker.io/library; without tag and digest the version is "latest";
\* nginx:1.27.0 without registry definition gives
\* pkg:docker/library/nginx@1.27.0?registry_name=docker.io; a purl with an
\* empty namespace has no namespace segment.
C18_ShortReferences ==
    /\ purl_pc = "parsed" =>
          /\ Len(RefSegments) = 2 =>
                IF Contains(RefSegments[1], ".") \/ Contains(RefSegments[1], ":")
                THEN ret.registry = RefSegments[1] /\ ret.namespace = ""
                ELSE ret.registry = "docker.io"
                     /\ ret.namespace = RefSegments[1]
          /\ Len(RefSegments) = 1 =>
                ret.registry = "docker.io" /\ ret.namespace = "library"
          /\ ( /\ Len(RefSegments) < 3
               /\ ~Contains(LastSegment, ":")
               /\ ~Contains(LastSegment, "@") ) =>
                ret.name = LastSegment /\ ret.version = "latest"
          /\ reference = "nginx:1.27.0" =>
                <<ret.registry, ret.namespace, ret.name, ret.version>>
                    = <<"docker.io", "library", "nginx", "1.27.0">>
    /\ purl_pc = "docker" =>
          /\ ( reference = "nginx:1.27.0" /\ regdef = None ) =>
                /\ ~ret.raised
                /\ ret.value
                     = "pkg:docker/library/nginx@1.27.0?registry_name=docker.io"
          /\ ( ~ret.raised /\ ret.namespace = "" ) =>
                StartsWith(ret.value,
                           "pkg:docker/" \o ret.name \o "@" \o ret.version
                               \o "?registry_name=")

\* C18 witness: the purl of nginx:1.27.0 was made without a registry
\* definition.
C18_Witness ==
    /\ purl_pc = "docker"
    /\ reference = "nginx:1.27.0"
    /\ regdef = None
    /\ ret.value = "pkg:docker/library/nginx@1.27.0?registry_name=docker.io"

HelmSchemes == {"oci://", "https://", "http://"}

\* The segments of the local ref of make_helm_purl.
HelmSegments == Split(ret.ref, "/")

NoChartName ==
    "Invalid Helm reference: cannot parse chart name from '" \o reference \o "'"

NoChartVersion ==
    "Invalid Helm reference: version is required in '" \o reference \o "'"

NoChartRegistry ==
    "Invalid Helm reference: cannot determine registry from '" \o reference
        \o "'"

\* C19: make_helm_purl removes at most one scheme prefix (oci://, https://,
\* http://); then it either returns a purl whose name, version and registry
\* host are all non-empty, or raises an error of its own for the missing
\* chart name, the missing version (no :tag in the last segment) or the
\* missing registry host (a reference of one segment); a reference that
\* lacks one of the three never yields a purl.
C19_HelmPurlOrError ==
    purl_pc = "helm" =>
        /\ IF \E p \in HelmSchemes : StartsWith(reference, p)
           THEN \E p \in HelmSchemes :
                    /\ StartsWith(reference, p)
                    /\ ret.ref = RemovePrefix(reference, p)
           ELSE ret.ref = reference
        /\ ~ret.raised =>
              /\ ret.name # "" /\ ret.version # "" /\ ret.registry # ""
              /\ StartsWith(ret.value, "pkg:helm/")
              /\ \E registry_name \in {ret.registry} \cup
                        ( IF regdef = None THEN {} ELSE {regdef[1].name} ) :
                    ret.value =
                        "pkg:helm/"
                        \o ( IF ret.namespace = "" THEN ""
                             ELSE ret.namespace \o "/" )
                        \o ret.name \o "@" \o ret.version
                        \o "?registry_name=" \o registry_name
        /\ ret.raised =>
              /\ ret.value = ""
              /\ ret.error \in {NoChartName, NoChartVersion, NoChartRegistry}
              /\ ret.error = NoChartName => ret.name = ""
              /\ ret.error = NoChartVersion => ret.version = ""
              /\ ret.error = NoChartRegistry => ret.registry = ""
        /\ ( ret.name = "" \/ ret.version = "" \/ ret.registry = "" )
              => ret.raised
        /\ ~Contains(HelmSegments[Len(HelmSegments)], ":") =>
              ret.raised /\ ret.error \in {NoChartName, NoChartVersion}
        /\ Len(HelmSegments) = 1 => ret.raised
        /\ Cardinality({NoChartName, NoChartVersion, NoChartRegistry}) = 3

\* C19 witness: of a reference with two scheme prefixes one was removed and
\* a purl was returned; the rest of the reference is read as segments.
C19_Witness ==
    /\ purl_pc = "helm"
    /\ reference = "oci://https://h.io/n/a:1"
    /\ ret.ref = "https://h.io/n/a:1"
    /\ ~ret.raised
    /\ ret.registry = "https:"

\* The URIs configured in the docker config of the registry definition.
ConfiguredUris ==
    LET dc == regdef[1].docker_config[1]
    IN  { uri[1] : uri \in { u \in {dc.group_uri, dc.snapshot_uri,
                                    dc.staging_uri, dc.release_uri} :
                               u # None } }

\* uri without one scheme prefix and without trailing slashes is host.
UriNamesHost(uri, host) ==
    LET schemes == {"oci://", "https://", "http://", "docker://"}
    IN  \E rest \in IF \E p \in schemes : StartsWith(uri, p)
                    THEN { RemovePrefix(uri, p) :
                             p \in { q \in schemes : StartsWith(uri, q) } }
                    ELSE {uri} :
            \E n \in 0..Len(rest) :
                /\ SubSeq(rest, 1, n) = host
                /\ \A i \in (n + 1)..Len(rest) : CharAt(rest, i) = "/"
                /\ n > 0 => CharAt(rest, n) # "/"

\* The registry definition has a docker config with a group name.
GroupNameConfigured ==
    /\ regdef # None
    /\ regdef[1].docker_config # None
    /\ regdef[1].docker_config[1].group_name # None
    /\ regdef[1].docker_config[1].group_name[1] # ""

\* C20: with a docker config and a group name in the registry definition,
\* the registry name of a container purl is the definition's name exactly
\* when a configured URI, one scheme prefix and the trailing slashes
\* removed, equals the host of the reference and the namespace is the group
\* name or starts with the group name and "/"; it is the host otherwise.
C20_RegistryName ==
    ( purl_pc = "docker" /\ ~ret.raised /\ GroupNameConfigured ) =>
        LET group_name == regdef[1].docker_config[1].group_name[1]
            matches ==
                /\ \E uri \in ConfiguredUris : UriNamesHost(uri, ret.registry)
                /\ \/ ret.namespace = group_name
                   \/ StartsWith(ret.namespace, group_name \o "/")
        IN  ret.value =
                "pkg:docker/"
                \o ( IF ret.namespace = "" THEN "" ELSE ret.namespace \o "/" )
                \o ret.name \o "@" \o ret.version \o "?registry_name="
                \o ( IF matches THEN regdef[1].name ELSE ret.registry )

\* C20 witness: the host is that of a configured URI with a scheme and a
\* trailing slash, the namespace only starts with the group name, and the
\* registry name is the host.
C20_Witness ==
    /\ purl_pc = "docker"
    /\ GroupNameConfigured
    /\ reference = "g.io/n-f/a:1"
    /\ regdef[1].docker_config[1].group_name = Some("n")
    /\ regdef[1].docker_config[1].group_uri = Some("https://g.io/")
    /\ ret.value = "pkg:docker/n-f/a@1?registry_name=g.io"

\* The registry definition has a helm config with a repository domain name.
HelmDomainConfigured ==
    /\ regdef # None
    /\ regdef[1].helm_app_config # None
    /\ regdef[1].helm_app_config[1].repository_domain_name # None

\* C21: the registry name of a Helm purl is the host of the reference when
\* there is no registry definition; with a definition it is the definition's
\* name exactly when the repository domain URI, one scheme prefix and the
\* trailing slashes removed, equals the host, whatever the namespace and the
\* docker config are, and the host otherwise.
C21_HelmRegistryName ==
    ( purl_pc = "helm" /\ ~ret.raised ) =>
        LET matches ==
                /\ HelmDomainConfigured
                /\ UriNamesHost(
                       regdef[1].helm_app_config[1].repository_domain_name[1],
                       ret.registry)
            registry_name == IF matches THEN regdef[1].name ELSE ret.registry
        IN  /\ ret.value =
                  "pkg:helm/"
                  \o ( IF ret.namespace = "" THEN "" ELSE ret.namespace \o "/" )
                  \o ret.name \o "@" \o ret.version \o "?registry_name="
                  \o registry_name
            /\ regdef = None => registry_name = ret.registry
            /\ registry_name \in
                  {ret.registry} \cup
                  ( IF regdef = None THEN {} ELSE {regdef[1].name} )

\* C21 witness: the repository domain names the host, the docker config names
\* another host and a group name that the namespace does not match, and the
\* registry name is the definition's name.
C21_Witness ==
    /\ purl_pc = "helm"
    /\ reference = "g.io/n-f/a:1"
    /\ HelmDomainConfigured
    /\ regdef[1].helm_app_config[1].repository_domain_name = Some("oci://g.io")
    /\ regdef[1].docker_config # None
    /\ regdef[1].docker_config[1].group_uri = Some("http://h.io")
    /\ regdef[1].docker_config[1].group_name = Some("n")
    /\ regdef[1].docker_config[1].release_uri = None
    /\ ret.value = "pkg:helm/n-f/a@1?registry_name=R"

-----------------------------------------------------------------------------
(* Claims about the shape of the output, checked under Spec *)

\* The Helm-typed edges of a declaration, in depends_on order.
HelmEdges(c) == SelectSeq(c.depends_on, IsHelm)

\* C23: the top-level components are the declared components without the
\* sub-charts and without those omitted for a missing descriptor, in declared
\* order; the nested list of a Helm chart holds the components carried over
\* from the descriptor, in descriptor order, and after them the sub-charts,
\* in depends_on order.
C23_OutputOrder ==
    pc = "done" =>
        /\ Len(bom.components) = Len(Emitted)
        /\ \A i \in DOMAIN bom.components :
              LET x == bom.components[i]
                  c == Emitted[i]
              IN  /\ <<x.name, x.mime_type>> = Key(c)
                  /\ x.bom_ref = IdOf(c)
                  /\ IsHelm(x) =>
                        LET src == Children(mini_manifests[Key(c)])
                            subs == HelmEdges(c)
                            nested == Children(x)
                        IN  /\ Len(nested) = Len(src) + Len(subs)
                            /\ \A k \in DOMAIN src :
                                  [nested[k] EXCEPT !.bom_ref = src[k].bom_ref]
                                      = src[k]
                            /\ \A k \in DOMAIN subs :
                                  LET n == nested[Len(src) + k]
                                  IN  /\ <<n.name, n.mime_type>> = Key(subs[k])
                                      /\ n.bom_ref = IdOf(subs[k])

\* C23 witness: an umbrella chart whose nested list holds the two components
\* of its descriptor and then two sub-charts, the later declared one first,
\* in a manifest that omits the image declared after the sub-charts.
C23_Witness ==
    /\ pc = "done"
    /\ config \in UmbrellaConfigs
    /\ Len(bom.components) = 1
    /\ Len(warnings) = 1
    /\ LET nested == Children(bom.components[1])
       IN  /\ Len(nested) = 4
           /\ nested[1].name = "values.schema.json"
           /\ nested[2].name = "resource-profile"
           /\ nested[3].name = "r"
           /\ nested[4].name = "q"

\* Every declared standalone-runnable has a top-level output component with
\* type application, its name and mime type, the given version, and
\* properties and components present and empty; the metadata component has
\* the same version.
StandalonesBuiltWith(version) ==
    /\ bom.metadata.component.version = version
    /\ \A n \in DOMAIN config.components :
          LET c == config.components[n]
          IN  IsStandalone(c) =>
                \E i \in DOMAIN bom.components :
                    LET x == bom.components[i]
                    IN  /\ x.bom_ref = IdOf(c)
                        /\ x.type = "application"
                        /\ x.name = c.name
                        /\ x.mime_type = c.mime_type
                        /\ x.version = Some(version)
                        /\ x.properties = Some(<<>>)
                        /\ x.components = Some(<<>>)

\* C24: a declared standalone-runnable is in the output whatever the
\* descriptor table holds, with type application, the declared name and mime
\* type, properties and components present as empty lists, and the version
\* that is the version override when one is given and the config's
\* application_version otherwise, which is also the metadata component's.
C24_Standalone ==
    pc = "done" =>
        StandalonesBuiltWith(IF version_override # None
                             THEN version_override[1]
                             ELSE config.application_version)

\* C24 amended: the version is the override when one is given and is not the
\* empty string, and the config's application_version otherwise.
C24_StandaloneNonEmptyOverride ==
    pc = "done" =>
        StandalonesBuiltWith(IF version_override # None /\ version_override[1] # ""
                             THEN version_override[1]
                             ELSE config.application_version)

\* C24 witness: the standalone of minimal_config.yaml was built with a
\* version override and a table that holds the chart and one image.
C24_Witness ==
    /\ pc = "done"
    /\ config = MinimalConfig
    /\ version_override = Some("9.9.9")
    /\ DOMAIN mini_manifests = {Key(ScenarioH), Key(ScenarioI2)}
    /\ bom.components[1].mime_type = STANDALONE_RUNNABLE
    /\ bom.components[1].version = Some("9.9.9")
    /\ bom.components[1].components = Some(<<>>)

\* version_override or config.application_version.
EffectiveVersion ==
    IF TruthyStr(version_override) THEN version_override[1]
    ELSE config.application_version

\* C25: an output component that is neither a Helm chart nor a standalone
\* equals its descriptor in every field but bom-ref; a top-level Helm output
\* component equals its descriptor in name, type, mime-type, group, purl,
\* hashes and data, its version is the descriptor's when that is non-empty
\* and the effective application version otherwise, and its components
\* field is a list, the empty one when there is nothing to nest.
C25_CopyFrame ==
    pc = "done" =>
        \A i \in DOMAIN bom.components :
            LET x == bom.components[i]
                c == Emitted[i]
            IN  ~IsStandalone(c) =>
                  LET d == mini_manifests[Key(c)]
                  IN  IF IsHelm(c)
                      THEN /\ <<x.name, x.type, x.mime_type, x.group, x.purl,
                                x.hashes, x.data>>
                              = <<d.name, d.type, d.mime_type, d.group, d.purl,
                                  d.hashes, d.data>>
                           /\ x.version =
                                Some(IF d.version # None /\ d.version[1] # ""
                                     THEN d.version[1] ELSE EffectiveVersion)
                           /\ x.components # None
                           /\ ( Children(d) = <<>> /\ HelmEdges(c) = <<>> )
                                => x.components = Some(<<>>)
                      ELSE [x EXCEPT !.bom_ref = d.bom_ref] = d

\* C25 witness: the chart of minimal_config.yaml was built from a descriptor
\* with an empty version and no nested components, under a version
\* override, next to an image built from a descriptor with every field set.
C25_Witness ==
    /\ pc = "done"
    /\ config = MinimalConfig
    /\ version_override = Some("9.9.9")
    /\ Key(ScenarioH) \in DOMAIN mini_manifests
    /\ mini_manifests[Key(ScenarioH)].version = Some("")
    /\ Key(ScenarioI1) \in DOMAIN mini_manifests
    /\ mini_manifests[Key(ScenarioI1)] = RichDescriptor(Key(ScenarioI1))
    /\ bom.components[2].version = Some("9.9.9")
    /\ bom.components[2].components = Some(<<>>)
    /\ bom.components[3].hashes = Some(<<"SHA-256">>)
    /\ Len(Children(bom.components[3])) = 2

\* C26: build_manifest leaves its inputs as they were: the descriptor table
\* (its keys and every field of every descriptor, nested components
\* included) and the BuildConfig after the call are those before the call.
C26_InputsUnchanged ==
    [][ pc = "start" =>
          /\ mini_manifests' = mini_manifests
          /\ config' = config
          /\ version_override' = version_override
          /\ name_override' = name_override ]_vars

\* C26 witness: a call has returned a manifest with a chart that carries
\* copies of its descriptor's nested components and an image, and the table
\* still holds both descriptors with the bom-refs they came with.
C26_Witness ==
    /\ pc = "done"
    /\ \E i, j \in DOMAIN bom.components :
          LET x == bom.components[i]
              y == bom.components[j]
              kx == <<x.name, x.mime_type>>
              ky == <<y.name, y.mime_type>>
          IN  /\ IsHelm(x) /\ y.type = "container"
              /\ Len(Children(x)) >= 2
              /\ kx \in DOMAIN mini_manifests
              /\ ky \in DOMAIN mini_manifests
              /\ mini_manifests[kx] = RichDescriptor(kx)
              /\ mini_manifests[ky] = RichDescriptor(ky)
              /\ x.bom_ref # mini_manifests[kx].bom_ref
              /\ Children(x)[1].bom_ref
                   # Children(mini_manifests[kx])[1].bom_ref

\* The bom-refs of the metadata component and of the output tree.
OutputRefs ==
    {bom.metadata.component.bom_ref}
    \cup { OutputTree[i].bom_ref : i \in DOMAIN OutputTree }

\* C28: every identifier in the dependency list, as a ref or inside a
\* dependsOn, is the bom-ref of the metadata component or of a component of
\* the output tree, top-level or nested.
C28_DependencyRefsResolve ==
    pc = "done" =>
        \A d \in DOMAIN bom.dependencies :
            /\ bom.dependencies[d].ref \in OutputRefs
            /\ \A j \in DOMAIN bom.dependencies[d].depends_on :
                  bom.dependencies[d].depends_on[j] \in OutputRefs

\* The same for configs in which every declared component that is looked up
\* has a descriptor and no sub-chart is below the first nesting level.
DependencyRefsResolveWhenAllBuilt ==
    ( /\ \A n \in DOMAIN config.components :
            \/ IsStandalone(config.components[n])
            \/ HasDescriptor(config.components[n])
      /\ \A n \in DOMAIN config.components :
            DeclaredSubChart(config.components[n]) =>
                \E i \in DOMAIN bom.components :
                    NestedIn(config.components[n],
                             CHOOSE t \in DOMAIN OutputTree :
                                 OutputTree[t] = bom.components[i]) )
    => C28_DependencyRefsResolve

\* c has a component in the output tree, top-level or nested.
InOutputTree(c) ==
    \E i \in DOMAIN OutputTree :
        /\ <<OutputTree[i].name, OutputTree[i].mime_type>> = Key(c)
        /\ OutputTree[i].bom_ref = IdOf(c)

\* C29: every declared component is in the output tree, top-level or nested
\* in a chart, or is named by a warning; charts that depend on themselves or
\* on each other and sub-charts of an omitted chart included.
C29_NothingLostSilently ==
    pc = "done" =>
        \A n \in DOMAIN config.components :
            InOutputTree(config.components[n]) \/ Warned(config.components[n])

\* The same for the declared components that are not sub-charts; it holds in
\* every returned manifest.
TopLevelNotLostSilently ==
    pc = "done" =>
        \A n \in DOMAIN config.components :
            ~DeclaredSubChart(config.components[n]) =>
                \/ InOutputTree(config.components[n])
                \/ Warned(config.components[n])

-----------------------------------------------------------------------------
(* Claims about fetching, checked under FetchSpec *)

\* C22: a call of fetch_helm_component creates exactly one temporary
\* directory, and when the call has ended, with a mini-manifest or with any
\* exception, no temporary directory exists.
C22_TemporaryDirectoryRemoved ==
    fetch_pc = "helm" =>
        /\ fetch_ret.world.created = 1
        /\ fetch_ret.world.tmpdirs = {}
        /\ tmpdirs = {}

\* A call that pulled, extracted and read the chart and then failed to parse
\* the reference has ended, and its directory is gone.
C22_Witness ==
    /\ fetch_pc = "helm"
    /\ fetch_ret.raised
    /\ fetch_ret.exception.type = "ValueError"
    /\ fetch_ret.world.created = 1
    /\ tmpdirs = {}

\* The i-th declared component has a reference and is a Helm chart or a
\* container image.
Fetchable(i) ==
    /\ TruthyStr(config.components[i].reference)
    /\ config.components[i].mime_type \in _HELM_TYPES \cup _DOCKER_TYPES

FetchableIndices ==
    SelectSeq([ i \in DOMAIN config.components |-> i ], Fetchable)

\* Processing the i-th component fails: helm is missing, times out, exits
\* non-zero or leaves no archive, the archive cannot be extracted or read,
\* or the reference cannot be parsed into a purl.
FetchFails(i) ==
    IF config.components[i].mime_type \in _HELM_TYPES
    THEN \/ helm[i].pull # "ok"
         \/ helm[i].archive # "chart"
         \/ make_helm_purl(config.components[i].reference[1], regdef).raised
    ELSE make_docker_purl(config.components[i].reference[1], regdef).raised

\* The fetchable components up to and including the first that fails.
UpToFirstFailure ==
    LET failing == { k \in DOMAIN FetchableIndices :
                       FetchFails(FetchableIndices[k]) }
    IN  IF failing = {} THEN FetchableIndices
        ELSE SubSeq(FetchableIndices, 1,
                    CHOOSE k \in failing : \A j \in failing : k <= j)

\* C27: fetch_components_from_config processes the components that have a
\* reference and are charts or images, in declared order, up to and
\* including the first that fails; when none fails it returns one result per
\* processed component, under the declared name and in that order; when one
\* fails it raises and returns no result, and the fetch command then writes
\* no file and ends with a non-zero exit code.
C27_FetchAborts ==
    /\ fetch_pc \in {"fetched", "written"} =>
          /\ fetch_ret.calls = UpToFirstFailure
          /\ fetch_ret.raised <=>
                \E k \in DOMAIN FetchableIndices :
                    FetchFails(FetchableIndices[k])
          /\ fetch_ret.raised => fetch_ret.value = None
          /\ ~fetch_ret.raised =>
                /\ fetch_ret.value # None
                /\ Len(fetch_ret.value[1]) = Len(FetchableIndices)
                /\ \A k \in DOMAIN FetchableIndices :
                      fetch_ret.value[1][k][1]
                          = config.components[FetchableIndices[k]].name
    /\ fetch_pc = "written" /\ fetch_ret.raised =>
          /\ out_dir = <<>>
          /\ exit_code # None
          /\ exit_code[1] # 0

\* The fetch command has ended after a component without a reference was
\* skipped, two components were processed, the next one failed and one more
\* was left unprocessed.
C27_Witness ==
    /\ fetch_pc = "written"
    /\ fetch_ret.raised
    /\ Len(fetch_ret.calls) = 3
    /\ Len(FetchableIndices) = 4
    /\ fetch_ret.calls[1] = 2
    /\ out_dir = <<>>
    /\ exit_code = Some(1)

\* The descriptor of the k-th result of the fetch.
FetchedDescriptor(k) == fetch_ret.value[1][k][2].components[1]

\* The descriptor of the k-th result has the name and the mime type of the
\* declared component it was fetched for.
KeyKept(k) ==
    /\ FetchedDescriptor(k).name
           = config.components[fetch_ret.calls[k]].name
    /\ FetchedDescriptor(k).mime_type
           = config.components[fetch_ret.calls[k]].mime_type

\* C30: every descriptor that fetch_components_from_config returns has the
\* name and the mime type of the declared component it was fetched for, and
\* build_manifest over the same config and the loaded mini-manifests emits
\* no "not found" warning for a component that was fetched.
C30_FetchThenGenerate ==
    /\ fetch_pc \in {"fetched", "written", "loaded"} /\ ~fetch_ret.raised =>
          \A k \in DOMAIN fetch_ret.calls : KeyKept(k)
    /\ fetch_pc = "loaded" /\ pc = "done" =>
          \A k \in DOMAIN fetch_ret.calls :
              ~Warned(config.components[fetch_ret.calls[k]])

\* The same for the container images and for the charts whose Chart.yaml
\* carries the declared name; no warning when this is so for every component
\* that was fetched (a file of one component may be written over by the
\* file of another of the same name and vendor).
FetchThenGenerateWhenChartNamed ==
    LET Named(i) ==
            \/ config.components[i].mime_type \in _DOCKER_TYPES
            \/ helm[i].chart_yaml.name = Some(config.components[i].name)
    IN  /\ fetch_pc \in {"fetched", "written", "loaded"}
           /\ ~fetch_ret.raised =>
              \A k \in DOMAIN fetch_ret.calls :
                  Named(fetch_ret.calls[k]) => KeyKept(k)
        /\ /\ fetch_pc = "loaded"
           /\ pc = "done"
           /\ \A k \in DOMAIN fetch_ret.calls : Named(fetch_ret.calls[k])
           => \A k \in DOMAIN fetch_ret.calls :
                  ~Warned(config.components[fetch_ret.calls[k]])

====
